---------------------------- MODULE Spec2Model ----------------------------
(***************************************************************************)
(* Model of the patent retrieval and re-ranking engine of                  *)
(* src/rag_system.py (class PatentRAGSystem, get_rag_system,               *)
(* initialize_rag_system) and of its caller src/main.py.                   *)
(*                                                                         *)
(* Text.  A text is a sequence of symbols.  A symbol is one character: an  *)
(* ASCII character is itself, a Hangul syllable is written as "_" followed *)
(* by its romanisation ("_gang", "_pan"), so that substring tests see the  *)
(* same characters as the Python code.  A label of the controlled          *)
(* vocabulary is written as the string of its symbols ("Mart_gang" is the  *)
(* label Mart + gang, "_gang_pan" the label gang + pan).                   *)
(*                                                                         *)
(* Scores.  A score is an integer number of 1/Unit percentage points.      *)
(* Every factor of the adjuster is a fraction <<num, den>> whose           *)
(* denominator divides what is left of Unit, so the products are exact;    *)
(* the Python code computes the same products in binary floating point.    *)
(***************************************************************************)
EXTENDS Integers, Sequences, FiniteSets, TLC

VARIABLES
    \* ---- one call of _calculate_enhanced_similarity (rag_system.py:267)
    base_similarity,        \* argument, in percentage points
    query_product_group,    \* argument
    patent_product_group,   \* argument
    query_steel_grade,      \* argument
    patent_steel_grade,     \* argument
    query_text,             \* argument
    claim_text,             \* argument
    enhanced_score,         \* the local enhanced_score, in 1/Unit points
    adj_pc,                 \* the statement the call is about to execute
    \* ---- one text given to the two classifiers (rag_system.py:209, 235)
    cls_query_text,         \* the argument query_text of both
    cls_product_group,      \* what _extract_product_group_from_query returned
    cls_steel_grade,        \* what _extract_steel_grade_from_query returned
    cls_returned,           \* the classifiers that have returned
    \* ---- one call of search_similar_patents on a built engine
    \*      (rag_system.py:144)
    patent_data,            \* self.patent_data: the rows, in load order
    index,                  \* self.index: the vectors added to the FAISS index
    srch_query_text,        \* argument query_text
    top_k,                  \* argument top_k
    raw,                    \* what self.index.search returned (line 153)
    results,                \* the returned list
    srch_pc,                \* "call" or "returned"
    \* ---- the global engine and its initialisation (rag_system.py:18-53,
    \*      679-695)
    csv_file,               \* the corpus file at csv_path: None or Some(rows)
    embeddings_cache,       \* the file embeddings_cache_path: None or Some(vectors)
    rag_system,             \* the module global: 0 (None) or an engine
    engines,                \* the PatentRAGSystem objects created so far
    thread,                 \* per thread: the call it is in and where
    \* ---- one call of enhanced_similarity_search (rag_system.py:597), on
    \*      the engine and arguments of the search variables above
    filters,                \* argument filters: None or a dict
    ranked,                 \* what search_similar_patents returned (line 602)
    filtered_results,       \* the local filtered_results: None or Some(list)
    \* ---- one call of _extract_year (rag_system.py:477)
    date_str,               \* argument date_str
    year,                   \* the returned year
    yr_pc,                  \* "call" or "returned"
    \* ---- the HTTP application of main.py and one search (main.py:36-50, 161-192)
    app_rag_system,         \* main.py global rag_system: "None" or "engine"
    module_engine,          \* rag_system.py global: None or Some(engine fields set)
    corpus_ok,              \* whether initialize() can load the corpus
    request,                \* the search issued: None, or Some(request or direct call)
    response,               \* its outcome: None, or Some(response or call outcome)
    api_pc,                 \* "startup", "serving" or "responded"
    \* ---- one summarize-patent request to one of the three backends
    backend,                \* "main", "simple_backend" or "run_backend"
    api_key,                \* OPENAI_API_KEY: "unset", "placeholder" or "set"
    completion,             \* what the completion call does: "ok" or how it raises
    rag,                    \* main.py rag_system for this request: "None", "ok", "raises"
    patent_data_req,        \* request["patent_data"]: None or a dict
    sum_response,           \* the answer: None or Some(response)
    \* ---- one call of load_patent_data on the rows of a corpus file (rag_system.py:55)
    csv_rows,               \* the rows pd.read_csv returns (line 58)
    loaded_data,            \* self.patent_data after the call: None or Some(rows)
    load_pc,                \* "call" or "returned"
    \* ---- concurrent queries on one built engine (rag_system.py:144, 597), on
    \*      self.patent_data and self.index of the search variables above
    calls,                  \* per call: its arguments, its position and its locals but results
    local_results,          \* per call frame: the local variable results (line 159)
    \* ---- one call of _extract_components_from_claim (rag_system.py:496)
    cmp_claim_text,         \* argument claim_text
    components,             \* the returned list
    cmp_pc,                 \* "call" or "returned"
    \* ---- enhanced and plain search on one engine
    plain_raw,              \* what index.search returned to the plain call
    plain_results,          \* what search_similar_patents(q, top_k) returned
    \* ---- calls of get_rag_system made one after another
    call_log                \* the calls made so far, each with what it did and returned

adj_vars == <<base_similarity, query_product_group, patent_product_group,
              query_steel_grade, patent_steel_grade, query_text, claim_text,
              enhanced_score, adj_pc>>

cls_vars == <<cls_query_text, cls_product_group, cls_steel_grade, cls_returned>>

srch_vars == <<patent_data, index, srch_query_text, top_k, raw, results, srch_pc>>

eng_vars == <<csv_file, embeddings_cache, rag_system, engines, thread>>

flt_vars == <<filters, ranked, filtered_results>>

yr_vars == <<date_str, year, yr_pc>>

api_vars == <<app_rag_system, module_engine, corpus_ok, request, response, api_pc>>

sum_vars == <<backend, api_key, completion, rag, patent_data_req, sum_response>>

load_vars == <<csv_rows, loaded_data, load_pc>>

cq_vars == <<calls, local_results>>

cmp_vars == <<cmp_claim_text, components, cmp_pc>>

eqv_vars == <<plain_raw, plain_results>>

sgl_vars == <<call_log>>

ext_vars == <<flt_vars, yr_vars, api_vars, sum_vars, load_vars, cq_vars, cmp_vars, eqv_vars, sgl_vars>>

vars == <<adj_vars, cls_vars, srch_vars, eng_vars, ext_vars>>

-----------------------------------------------------------------------------
(* The literal tables of src/rag_system.py.                                *)

\* src/rag_system.py:212-224
product_group_keywords ==
  <<
    [label |-> "Mart_gang",
     keywords |-> <<<<"M", "a", "r", "t", "_gang">>,
                    <<"_ma", "_reu", "_ten", "_sa", "_i", "_teu", "_gang">>,
                    <<"m", "a", "r", "t", "e", "n", "s", "i", "t", "i", "c">>,
                    <<"_ma", "_reu", "_ten", "_sa", "_i", "_teu">>>>],
    [label |-> "HPF_gang",
     keywords |-> <<<<"H", "P", "F", "_gang">>,
                    <<"H", "P", "F">>,
                    <<"H", "o", "t", " ", "P", "r", "e", "s", "s", " ", "F", "o", "r", "m", "i", "n", "g">>,
                    <<"_hat", "_peu", "_re", "_seu", "_po", "_ming">>>>],
    [label |-> "_seu_te_in_ri_seu_gang",
     keywords |-> <<<<"_seu", "_te", "_in", "_ri", "_seu">>,
                    <<"_seu", "_te", "_in", "_re", "_seu">>,
                    <<"s", "t", "a", "i", "n", "l", "e", "s", "s">>>>],
    [label |-> "_tan_so_gang",
     keywords |-> <<<<"_tan", "_so", "_gang">>,
                    <<"c", "a", "r", "b", "o", "n", " ", "s", "t", "e", "e", "l">>>>],
    [label |-> "_hap_geum_gang",
     keywords |-> <<<<"_hap", "_geum", "_gang">>,
                    <<"a", "l", "l", "o", "y", " ", "s", "t", "e", "e", "l">>>>],
    [label |-> "_go_gang_do_gang",
     keywords |-> <<<<"_go", "_gang", "_do">>,
                    <<"h", "i", "g", "h", " ", "s", "t", "r", "e", "n", "g", "t", "h">>>>],
    [label |-> "_gang_pan",
     keywords |-> <<<<"_gang", "_pan">>,
                    <<"s", "t", "e", "e", "l", " ", "s", "h", "e", "e", "t">>,
                    <<"s", "t", "e", "e", "l", " ", "p", "l", "a", "t", "e">>>>],
    [label |-> "_gang_jae",
     keywords |-> <<<<"_gang", "_jae">>,
                    <<"s", "t", "e", "e", "l", " ", "m", "a", "t", "e", "r", "i", "a", "l">>>>],
    [label |-> "_do_geum_gang_pan",
     keywords |-> <<<<"_do", "_geum">>,
                    <<"_a", "_yeon", "_do", "_geum">>,
                    <<"g", "a", "l", "v", "a", "n", "i", "z", "e", "d">>,
                    <<"c", "o", "a", "t", "e", "d">>>>],
    [label |-> "_naeng_yeon_gang_pan",
     keywords |-> <<<<"_naeng", "_yeon">>,
                    <<"c", "o", "l", "d", " ", "r", "o", "l", "l", "e", "d">>>>],
    [label |-> "_yeol_yeon_gang_pan",
     keywords |-> <<<<"_yeol", "_yeon">>,
                    <<"h", "o", "t", " ", "r", "o", "l", "l", "e", "d">>>>]
  >>

\* src/rag_system.py:238-255
steel_grade_keywords ==
  <<
    [label |-> "HPF_gang",
     keywords |-> <<<<"H", "P", "F", "_gang">>,
                    <<"H", "P", "F">>,
                    <<"H", "o", "t", " ", "P", "r", "e", "s", "s", " ", "F", "o", "r", "m", "i", "n", "g">>,
                    <<"_hat", "_peu", "_re", "_seu", "_po", "_ming">>,
                    <<"_hat", "_seu", "_taem", "_ping">>>>],
    [label |-> "Mart_gang",
     keywords |-> <<<<"M", "a", "r", "t", "_gang">>,
                    <<"_ma", "_reu", "_ten", "_sa", "_i", "_teu", "_gang">>,
                    <<"m", "a", "r", "t", "e", "n", "s", "i", "t", "i", "c", " ", "s", "t", "e", "e", "l">>,
                    <<"_ma", "_reu", "_ten", "_sa", "_i", "_teu", "_gye">>>>],
    [label |-> "DP_gang",
     keywords |-> <<<<"D", "P", "_gang">>,
                    <<"D", "u", "a", "l", " ", "P", "h", "a", "s", "e">>,
                    <<"_dyu", "_eol", "_pe", "_i", "_jeu">>,
                    <<"d", "u", "a", "l", " ", "p", "h", "a", "s", "e">>>>],
    [label |-> "TRIP_gang",
     keywords |-> <<<<"T", "R", "I", "P", "_gang">>,
                    <<"T", "R", "I", "P">>,
                    <<"t", "r", "a", "n", "s", "f", "o", "r", "m", "a", "t", "i", "o", "n", " ", "i", "n", "d", "u", "c", "e", "d", " ", "p", "l", "a", "s", "t", "i", "c", "i", "t", "y">>>>],
    [label |-> "CP_gang",
     keywords |-> <<<<"C", "P", "_gang">>,
                    <<"C", "o", "m", "p", "l", "e", "x", " ", "P", "h", "a", "s", "e">>,
                    <<"_bok", "_hap", "_jo", "_jik", "_gang">>>>],
    [label |-> "TWIP_gang",
     keywords |-> <<<<"T", "W", "I", "P", "_gang">>,
                    <<"T", "W", "I", "P">>,
                    <<"t", "w", "i", "n", "n", "i", "n", "g", " ", "i", "n", "d", "u", "c", "e", "d", " ", "p", "l", "a", "s", "t", "i", "c", "i", "t", "y">>>>],
    [label |-> "FB_gang",
     keywords |-> <<<<"F", "B", "_gang">>,
                    <<"F", "e", "r", "r", "i", "t", "e", " ", "B", "a", "i", "n", "i", "t", "e">>,
                    <<"_pe", "_ra", "_i", "_teu", "_be", "_i", "_na", "_i", "_teu">>>>],
    [label |-> "IF_gang",
     keywords |-> <<<<"I", "F", "_gang">>,
                    <<"I", "n", "t", "e", "r", "s", "t", "i", "t", "i", "a", "l", " ", "F", "r", "e", "e">>,
                    <<"_geuk", "_jeo", "_tan", "_so", "_gang">>>>],
    [label |-> "_go_jang_ryeok_gang",
     keywords |-> <<<<"_go", "_jang", "_ryeok", "_gang">>,
                    <<"h", "i", "g", "h", " ", "t", "e", "n", "s", "i", "l", "e">>,
                    <<"_go", "_in", "_jang", "_gang", "_do">>>>],
    [label |-> "_cho_go_jang_ryeok_gang",
     keywords |-> <<<<"_cho", "_go", "_jang", "_ryeok", "_gang">>,
                    <<"u", "l", "t", "r", "a", " ", "h", "i", "g", "h", " ", "t", "e", "n", "s", "i", "l", "e">>,
                    <<"U", "H", "T", "S">>>>],
    [label |-> "_seu_te_in_ri_seu_gang",
     keywords |-> <<<<"_seu", "_te", "_in", "_ri", "_seu", "_gang">>,
                    <<"s", "t", "a", "i", "n", "l", "e", "s", "s", " ", "s", "t", "e", "e", "l">>,
                    <<"_seu", "_te", "_in", "_re", "_seu", "_gang">>>>],
    [label |-> "_tan_so_gang",
     keywords |-> <<<<"_tan", "_so", "_gang">>,
                    <<"c", "a", "r", "b", "o", "n", " ", "s", "t", "e", "e", "l">>>>],
    [label |-> "_hap_geum_gang",
     keywords |-> <<<<"_hap", "_geum", "_gang">>,
                    <<"a", "l", "l", "o", "y", " ", "s", "t", "e", "e", "l">>>>],
    [label |-> "_do_geum_gang_pan",
     keywords |-> <<<<"_do", "_geum", "_gang", "_pan">>,
                    <<"_a", "_yeon", "_do", "_geum", "_gang", "_pan">>,
                    <<"g", "a", "l", "v", "a", "n", "i", "z", "e", "d", " ", "s", "t", "e", "e", "l">>,
                    <<"c", "o", "a", "t", "e", "d", " ", "s", "t", "e", "e", "l">>>>],
    [label |-> "_naeng_yeon_gang_pan",
     keywords |-> <<<<"_naeng", "_yeon", "_gang", "_pan">>,
                    <<"c", "o", "l", "d", " ", "r", "o", "l", "l", "e", "d", " ", "s", "t", "e", "e", "l">>>>],
    [label |-> "_yeol_yeon_gang_pan",
     keywords |-> <<<<"_yeol", "_yeon", "_gang", "_pan">>,
                    <<"h", "o", "t", " ", "r", "o", "l", "l", "e", "d", " ", "s", "t", "e", "e", "l">>>>]
  >>

\* src/rag_system.py:343-422 (values in hundredths)
similarity_matrix ==
  { <<"HPF_gang", "Mart_gang", 1>>,
    <<"HPF_gang", "DP_gang", 30>>,
    <<"HPF_gang", "TRIP_gang", 25>>,
    <<"HPF_gang", "CP_gang", 35>>,
    <<"HPF_gang", "TWIP_gang", 20>>,
    <<"HPF_gang", "FB_gang", 40>>,
    <<"HPF_gang", "_go_jang_ryeok_gang", 60>>,
    <<"HPF_gang", "_cho_go_jang_ryeok_gang", 80>>,
    <<"HPF_gang", "_seu_te_in_ri_seu_gang", 10>>,
    <<"HPF_gang", "_tan_so_gang", 20>>,
    <<"HPF_gang", "_hap_geum_gang", 40>>,
    <<"Mart_gang", "HPF_gang", 1>>,
    <<"Mart_gang", "DP_gang", 40>>,
    <<"Mart_gang", "TRIP_gang", 35>>,
    <<"Mart_gang", "CP_gang", 50>>,
    <<"Mart_gang", "TWIP_gang", 30>>,
    <<"Mart_gang", "FB_gang", 60>>,
    <<"Mart_gang", "_go_jang_ryeok_gang", 70>>,
    <<"Mart_gang", "_cho_go_jang_ryeok_gang", 80>>,
    <<"Mart_gang", "_seu_te_in_ri_seu_gang", 20>>,
    <<"Mart_gang", "_tan_so_gang", 30>>,
    <<"Mart_gang", "_hap_geum_gang", 60>>,
    <<"DP_gang", "HPF_gang", 30>>,
    <<"DP_gang", "Mart_gang", 40>>,
    <<"DP_gang", "TRIP_gang", 70>>,
    <<"DP_gang", "CP_gang", 80>>,
    <<"DP_gang", "TWIP_gang", 60>>,
    <<"DP_gang", "FB_gang", 70>>,
    <<"DP_gang", "_go_jang_ryeok_gang", 80>>,
    <<"DP_gang", "_cho_go_jang_ryeok_gang", 70>>,
    <<"DP_gang", "_seu_te_in_ri_seu_gang", 10>>,
    <<"DP_gang", "_tan_so_gang", 30>>,
    <<"DP_gang", "_hap_geum_gang", 50>>,
    <<"TRIP_gang", "HPF_gang", 25>>,
    <<"TRIP_gang", "Mart_gang", 35>>,
    <<"TRIP_gang", "DP_gang", 70>>,
    <<"TRIP_gang", "CP_gang", 75>>,
    <<"TRIP_gang", "TWIP_gang", 80>>,
    <<"TRIP_gang", "FB_gang", 60>>,
    <<"TRIP_gang", "_go_jang_ryeok_gang", 70>>,
    <<"TRIP_gang", "_cho_go_jang_ryeok_gang", 60>>,
    <<"TRIP_gang", "_seu_te_in_ri_seu_gang", 10>>,
    <<"TRIP_gang", "_tan_so_gang", 20>>,
    <<"TRIP_gang", "_hap_geum_gang", 40>>,
    <<"_go_jang_ryeok_gang", "HPF_gang", 60>>,
    <<"_go_jang_ryeok_gang", "Mart_gang", 70>>,
    <<"_go_jang_ryeok_gang", "DP_gang", 80>>,
    <<"_go_jang_ryeok_gang", "TRIP_gang", 70>>,
    <<"_go_jang_ryeok_gang", "CP_gang", 80>>,
    <<"_go_jang_ryeok_gang", "TWIP_gang", 60>>,
    <<"_go_jang_ryeok_gang", "FB_gang", 70>>,
    <<"_go_jang_ryeok_gang", "_cho_go_jang_ryeok_gang", 90>>,
    <<"_go_jang_ryeok_gang", "_seu_te_in_ri_seu_gang", 20>>,
    <<"_go_jang_ryeok_gang", "_tan_so_gang", 50>>,
    <<"_go_jang_ryeok_gang", "_hap_geum_gang", 60>>,
    <<"_cho_go_jang_ryeok_gang", "HPF_gang", 80>>,
    <<"_cho_go_jang_ryeok_gang", "Mart_gang", 80>>,
    <<"_cho_go_jang_ryeok_gang", "DP_gang", 70>>,
    <<"_cho_go_jang_ryeok_gang", "TRIP_gang", 60>>,
    <<"_cho_go_jang_ryeok_gang", "CP_gang", 70>>,
    <<"_cho_go_jang_ryeok_gang", "TWIP_gang", 50>>,
    <<"_cho_go_jang_ryeok_gang", "FB_gang", 60>>,
    <<"_cho_go_jang_ryeok_gang", "_go_jang_ryeok_gang", 90>>,
    <<"_cho_go_jang_ryeok_gang", "_seu_te_in_ri_seu_gang", 10>>,
    <<"_cho_go_jang_ryeok_gang", "_tan_so_gang", 30>>,
    <<"_cho_go_jang_ryeok_gang", "_hap_geum_gang", 50>> }

\* src/rag_system.py:437-447
related_groups ==
  { <<"Mart_gang", {"_go_gang_do_gang", "HPF_gang"}>>,
    <<"HPF_gang", {"_go_gang_do_gang", "Mart_gang"}>>,
    <<"_go_gang_do_gang", {"Mart_gang", "HPF_gang"}>>,
    <<"_gang_pan", {"_do_geum_gang_pan", "_naeng_yeon_gang_pan", "_yeol_yeon_gang_pan"}>>,
    <<"_do_geum_gang_pan", {"_gang_pan", "_naeng_yeon_gang_pan"}>>,
    <<"_naeng_yeon_gang_pan", {"_gang_pan", "_do_geum_gang_pan"}>>,
    <<"_yeol_yeon_gang_pan", {"_gang_pan"}>>,
    <<"_seu_te_in_ri_seu_gang", {"_hap_geum_gang"}>>,
    <<"_hap_geum_gang", {"_seu_te_in_ri_seu_gang"}>> }

\* src/rag_system.py:456-461
technical_terms ==
  <<<<"_ma", "_reu", "_ten", "_sa", "_i", "_teu">>,
    <<"_be", "_i", "_na", "_i", "_teu">>,
    <<"_o", "_seu", "_te", "_na", "_i", "_teu">>,
    <<"_pe", "_ra", "_i", "_teu">>,
    <<"_in", "_jang", "_gang", "_do">>,
    <<"_hang", "_bok", "_gang", "_do">>,
    <<"_yeon", "_sin", "_yul">>,
    <<"_gup", "_him">>,
    <<"_tan", "_so">>,
    <<"_mang", "_gan">>,
    <<"_sil", "_ri", "_kon">>,
    <<"_keu", "_rom">>,
    <<"_mol", "_ri", "_beu", "_den">>,
    <<"_yeol", "_cheo", "_ri">>,
    <<"_naeng", "_gak">>,
    <<"_ga", "_yeol">>,
    <<"_tem", "_peo", "_ring">>>>
-----------------------------------------------------------------------------
(* Strings.                                                                *)

UpperCase == <<"A", "B", "C", "D", "E", "F", "G", "H", "I", "J", "K", "L", "M",
               "N", "O", "P", "Q", "R", "S", "T", "U", "V", "W", "X", "Y", "Z">>

LowerCase == <<"a", "b", "c", "d", "e", "f", "g", "h", "i", "j", "k", "l", "m",
               "n", "o", "p", "q", "r", "s", "t", "u", "v", "w", "x", "y", "z">>

\* str.lower() of one character: only cased characters change.
LowerOf == [c \in {UpperCase[i] : i \in 1..Len(UpperCase)} |->
               LowerCase[CHOOSE i \in 1..Len(UpperCase) : UpperCase[i] = c]]

lower_char(c) == IF c \in DOMAIN LowerOf THEN LowerOf[c] ELSE c

\* str.lower()
lower(s) == [i \in 1..Len(s) |-> lower_char(s[i])]

\* str.upper(), used to build sample texts in another case
upper_char(c) ==
    IF \E i \in 1..Len(LowerCase) : LowerCase[i] = c
    THEN UpperCase[CHOOSE i \in 1..Len(LowerCase) : LowerCase[i] = c]
    ELSE c

upper(s) == [i \in 1..Len(s) |-> upper_char(s[i])]

\* Python's "sub in s" on strings
contains(s, sub) ==
    \E i \in 0..(Len(s) - Len(sub)) : \A j \in 1..Len(sub) : s[i + j] = sub[j]

Min(a, b) == IF a <= b THEN a ELSE b

\* The decimal digits and their values.
Digits == <<"0", "1", "2", "3", "4", "5", "6", "7", "8", "9">>

DigitValue == [c \in {Digits[i] : i \in 1..Len(Digits)} |->
                  (CHOOSE i \in 1..Len(Digits) : Digits[i] = c) - 1]

\* The whitespace characters of the sample texts: blank and newline.
Whitespace == {" ", "nl"}

\* str.strip() of whitespace, one end at a time
RECURSIVE lstrip(_)
lstrip(s) == IF Len(s) > 0 /\ s[1] \in Whitespace THEN lstrip(Tail(s)) ELSE s

RECURSIVE rstrip(_)
rstrip(s) ==
    IF Len(s) > 0 /\ s[Len(s)] \in Whitespace
    THEN rstrip(SubSeq(s, 1, Len(s) - 1))
    ELSE s

strip(s) == rstrip(lstrip(s))

\* The value of a digit string whose "_" separators are skipped.
RECURSIVE digits_value(_)
digits_value(s) ==
    IF Len(s) = 0 THEN 0
    ELSE IF s[Len(s)] = "_" THEN digits_value(SubSeq(s, 1, Len(s) - 1))
    ELSE digits_value(SubSeq(s, 1, Len(s) - 1)) * 10 + DigitValue[s[Len(s)]]

\* Python's int(s) on a string: blanks around the literal are dropped, one
\* sign may lead, digits follow, single "_" allowed between digits.
\* ok = FALSE stands for ValueError.
int_of(s) ==
    LET t == strip(s)
        signed == Len(t) > 0 /\ t[1] \in {"+", "-"}
        body == IF signed THEN Tail(t) ELSE t
        wellformed ==
            /\ Len(body) > 0
            /\ \A i \in 1..Len(body) : body[i] \in DOMAIN DigitValue \cup {"_"}
            /\ body[1] # "_" /\ body[Len(body)] # "_"
            /\ \A i \in 1..(Len(body) - 1) : ~(body[i] = "_" /\ body[i + 1] = "_")
    IN  IF wellformed
        THEN [ok |-> TRUE,
              value |-> IF signed /\ t[1] = "-" THEN 0 - digits_value(body)
                                                ELSE digits_value(body)]
        ELSE [ok |-> FALSE, value |-> 0]

\* s.split(sep)[0]: the part before the first sep, all of s without one
before_first(s, sep) ==
    IF \E i \in 1..Len(s) : s[i] = sep
    THEN SubSeq(s, 1, (CHOOSE i \in 1..Len(s) :
                          s[i] = sep /\ \A j \in 1..(i - 1) : s[j] # sep) - 1)
    ELSE s

\* An absent value (Python's None, a file that does not exist) and a
\* present one.
None == <<>>
Some(x) == <<x>>

\* A missing cell of the corpus table (pandas NaN); no text equals it.
NaN == <<"<NaN>">>

-----------------------------------------------------------------------------
(* Regular expressions: the part of Python's re that the patterns of       *)
(* _extract_components_from_claim use.  A pattern is a sequence of atoms,  *)
(* each a choice of literal texts or a repeated character class, and a     *)
(* capture group that runs from atom group to the end of the pattern.      *)
(* Matching backtracks in the order of re: alternatives left to right, a   *)
(* greedy repetition from the longest run down, a lazy one from the        *)
(* shortest up.  Literals compare without case (re.IGNORECASE).            *)

\* The Hangul syllables of the patterns and labels.
Hangul ==
    {"_tan", "_so", "_sil", "_ri", "_kon", "_mang", "_gan", "_in", "_hwang",
     "_keu", "_rom", "_bung", "_al", "_ru", "_mi", "_nyum", "_ma", "_reu",
     "_ten", "_sa", "_i", "_teu", "_ja", "_be", "_na", "_o", "_seu", "_te",
     "_pe", "_ra", "_peol", "_jang", "_gang", "_do", "_hang", "_bok", "_yeon",
     "_sin", "_gup", "_him", "_yul", "_seong", "_sang", "_ha", "_nae", "_ji",
     "_reul", "_ham", "_yu", "_go"}

\* \w: letters of any script, digits and the underscore
is_word(ch) ==
    \/ \E i \in 1..Len(UpperCase) : ch = UpperCase[i] \/ ch = LowerCase[i]
    \/ ch \in DOMAIN DigitValue
    \/ ch = "_"
    \/ ch \in Hangul

\* Whether ch belongs to a character class.  A class is named, or is one
\* literal character.
in_class(cls, ch) ==
    CASE cls = "space" -> ch \in Whitespace                        \* \s
      [] cls = "digit" -> ch \in DOMAIN DigitValue                 \* \d
      [] cls = "value" ->                               \* [\d.~%\s\w...]
             \/ ch \in DOMAIN DigitValue
             \/ ch \in {".", "~", "%"}
             \/ ch \in Whitespace
             \/ is_word(ch)
      [] cls = "dot" -> ch # "nl"                                   \* .
      [] cls = "not_comma" -> ch # ","                              \* [^,]
      [] cls = "colon_space" -> ch = ":" \/ ch \in Whitespace       \* [:\s]
      [] cls = "MG" -> lower_char(ch) \in {"m", "g"}                \* [MG]
      [] OTHER -> lower_char(ch) = lower_char(cls)

\* The atoms.  Unbounded stands for no upper limit of a repetition.
Unbounded == 1000000
Lit(alts) ==
    [kind |-> "lit", alts |-> alts, cls |-> "", min |-> 1, max |-> 1, greedy |-> TRUE]
Rep(cls, min, max, greedy) ==
    [kind |-> "cls", alts |-> <<>>, cls |-> cls, min |-> min, max |-> max,
     greedy |-> greedy]
One(cls) == Rep(cls, 1, 1, TRUE)
Opt(cls) == Rep(cls, 0, 1, TRUE)
Star(cls) == Rep(cls, 0, Unbounded, TRUE)
Plus(cls) == Rep(cls, 1, Unbounded, TRUE)
LazyStar(cls) == Rep(cls, 0, Unbounded, FALSE)

\* The number of characters of s from position pos on that belong to cls,
\* up to max.
RECURSIVE run_length(_, _, _, _)
run_length(cls, s, pos, max) ==
    IF max = 0 \/ pos > Len(s) \/ ~in_class(cls, s[pos]) THEN 0
    ELSE 1 + run_length(cls, s, pos + 1, max - 1)

\* Whether the literal text lit stands at position pos of s, case ignored.
literal_at(lit, s, pos) ==
    /\ pos + Len(lit) - 1 <= Len(s)
    /\ \A j \in 1..Len(lit) : lower_char(s[pos + j - 1]) = lower_char(lit[j])

NoMatch == [ok |-> FALSE, end |-> 0, cap |-> 0]

\* The match of the atoms a.. of pattern p at position pos of s: end is the
\* position after the match, cap the position where the group starts.
RECURSIVE re_match(_, _, _, _)
RECURSIVE re_alts(_, _, _, _, _)
RECURSIVE re_reps(_, _, _, _, _, _)
re_match(p, a, s, pos) ==
    IF a > Len(p.atoms) THEN [ok |-> TRUE, end |-> pos, cap |-> pos]
    ELSE LET atom == p.atoms[a]
             run == run_length(atom.cls, s, pos, atom.max)
             r == IF atom.kind = "lit" THEN re_alts(p, a, s, pos, 1)
                  ELSE re_reps(p, a, s, pos, run,
                               IF atom.greedy THEN run ELSE atom.min)
         IN  IF r.ok /\ a = p.group THEN [r EXCEPT !.cap = pos] ELSE r

\* Alternative j and the following ones of the literal atom a.
re_alts(p, a, s, pos, j) ==
    IF j > Len(p.atoms[a].alts) THEN NoMatch
    ELSE LET lit == p.atoms[a].alts[j]
             r == IF literal_at(lit, s, pos)
                  THEN re_match(p, a + 1, s, pos + Len(lit))
                  ELSE NoMatch
         IN  IF r.ok THEN r ELSE re_alts(p, a, s, pos, j + 1)

\* k repetitions of the class atom a, then the next count to try: one
\* fewer when greedy, one more when lazy.
re_reps(p, a, s, pos, run, k) ==
    IF k < p.atoms[a].min \/ k > run THEN NoMatch
    ELSE LET r == re_match(p, a + 1, s, pos + k)
         IN  IF r.ok THEN r
             ELSE re_reps(p, a, s, pos, run,
                          IF p.atoms[a].greedy THEN k - 1 ELSE k + 1)

\* re.findall(p, s) from position i on: the text of the group of every
\* match, leftmost first, a search resuming where the last match ended.
RECURSIVE findall(_, _, _)
findall(p, s, i) ==
    IF i > Len(s) THEN <<>>
    ELSE LET r == re_match(p, 1, s, i)
         IN  IF r.ok
             THEN <<SubSeq(s, r.cap, r.end - 1)>>
                      \o findall(p, s, IF r.end > i THEN r.end ELSE i + 1)
             ELSE findall(p, s, i + 1)

\* re.sub(p, '', s) from position i on: s without the matches of p.
RECURSIVE sub_empty(_, _, _)
sub_empty(p, s, i) ==
    IF i > Len(s) THEN <<>>
    ELSE LET r == re_match(p, 1, s, i)
         IN  IF r.ok /\ r.end > i THEN sub_empty(p, s, r.end)
             ELSE <<s[i]>> \o sub_empty(p, s, i + 1)

-----------------------------------------------------------------------------
(* Scores.                                                                 *)

\* One percentage point.  20 * 10 * 20 * 50 is the product of the largest
\* denominators of the four multiplicative steps.
Unit == 20 * 10 * 20 * 50

\* The score of a padded result slot of the vector index: FAISS reports
\* -FLT_MAX for it; times 100 it is below every score of a document and
\* stays so under every positive factor.
NegInf == -2000000000

\* s * num/den (the code's "enhanced_score *= f")
Mul(s, f) == IF s = NegInf THEN NegInf ELSE (s \div f[2]) * f[1]

\* float(similarity * 100), in 1/Unit points
ToScore(b) == IF b = NegInf THEN NegInf ELSE b * Unit

-----------------------------------------------------------------------------
(* DomainClassifier: the two keyword-table lookups.                        *)

\* "for keyword in keywords: if keyword.lower() in query_lower"
any_keyword_in(keywords, query_lower) ==
    \E k \in 1..Len(keywords) : contains(query_lower, lower(keywords[k]))

\* "for label, keywords in table.items(): ... return label", from entry i
\* on; "" when the loop ends (lines 228-233, 260-265)
RECURSIVE scan_table(_, _, _)
scan_table(table, query_lower, i) ==
    IF i > Len(table) THEN ""
    ELSE IF any_keyword_in(table[i].keywords, query_lower)
         THEN table[i].label
         ELSE scan_table(table, query_lower, i + 1)

\* The same loop over the entries in reverse order.
RECURSIVE scan_table_backwards(_, _, _)
scan_table_backwards(table, query_lower, i) ==
    IF i < 1 THEN ""
    ELSE IF any_keyword_in(table[i].keywords, query_lower)
         THEN table[i].label
         ELSE scan_table_backwards(table, query_lower, i - 1)

\* rag_system.py:209-233
extract_product_group_from_query(text) ==
    scan_table(product_group_keywords, lower(text), 1)

\* Variant of extract_steel_grade_from_query: the table is iterated from
\* its last entry to its first.
extract_steel_grade_from_query_reversed(text) ==
    scan_table_backwards(steel_grade_keywords, lower(text),
                         Len(steel_grade_keywords))

\* rag_system.py:235-265
extract_steel_grade_from_query(text) ==
    scan_table(steel_grade_keywords, lower(text), 1)

-----------------------------------------------------------------------------
(* ScoreAdjuster: _calculate_enhanced_similarity and its helpers.          *)

\* Variant of are_related_product_groups: a table in which the opposing
\* pair HPF-gang / Mart-gang is not listed as related.
are_related_product_groups_unopposed(group1, group2) ==
    /\ {group1, group2} # {"HPF_gang", "Mart_gang"}
    /\ \E e \in related_groups : e[1] = group1 /\ group2 \in e[2]

\* rag_system.py:435-449
are_related_product_groups(group1, group2) ==
    \E e \in related_groups : e[1] = group1 /\ group2 \in e[2]

\* Variant of calculate_steel_grade_similarity: the reverse lookup is
\* missing.
calculate_steel_grade_similarity_direct_only(grade1, grade2) ==
    IF grade1 = grade2 THEN 100
    ELSE IF \E e \in similarity_matrix : e[1] = grade1 /\ e[2] = grade2
    THEN (CHOOSE e \in similarity_matrix : e[1] = grade1 /\ e[2] = grade2)[3]
    ELSE 10

\* rag_system.py:337-433, in hundredths
calculate_steel_grade_similarity(grade1, grade2) ==
    IF grade1 = grade2 THEN 100
    ELSE IF \E e \in similarity_matrix : e[1] = grade1 /\ e[2] = grade2
    THEN (CHOOSE e \in similarity_matrix : e[1] = grade1 /\ e[2] = grade2)[3]
    ELSE IF \E e \in similarity_matrix : e[1] = grade2 /\ e[2] = grade1
    THEN (CHOOSE e \in similarity_matrix : e[1] = grade2 /\ e[2] = grade1)[3]
    ELSE 10

\* Variant of calculate_technical_content_bonus: the bonus has no cap.
calculate_technical_content_bonus_uncapped(q_text, c_text) ==
    LET query_lower == lower(q_text)
        claim_lower == lower(c_text)
        common_terms == Cardinality({i \in 1..Len(technical_terms) :
                            /\ contains(query_lower, technical_terms[i])
                            /\ contains(claim_lower, technical_terms[i])})
    IN  IF common_terms > 0 THEN common_terms * 2 ELSE 0

\* rag_system.py:451-475: the bonus in hundredths
calculate_technical_content_bonus(q_text, c_text) ==
    LET query_lower == lower(q_text)
        claim_lower == lower(c_text)
        common_terms == Cardinality({i \in 1..Len(technical_terms) :
                            /\ contains(query_lower, technical_terms[i])
                            /\ contains(claim_lower, technical_terms[i])})
    IN  IF common_terms > 0 THEN Min(common_terms * 2, 10) ELSE 0

\* Variant of product_group_factor: the guard tests the query side only.
product_group_factor_query_only(q_pg, p_pg) ==
    IF q_pg # ""
    THEN IF q_pg = p_pg THEN <<13, 10>>
         ELSE IF are_related_product_groups(q_pg, p_pg)
              THEN <<23, 20>>
              ELSE <<4, 5>>
    ELSE <<1, 1>>

\* rag_system.py:275-288: the factor of the product-group step
product_group_factor(q_pg, p_pg) ==
    IF q_pg # "" /\ p_pg # ""
    THEN IF q_pg = p_pg THEN <<13, 10>>                          \* 1.3
         ELSE IF are_related_product_groups(q_pg, p_pg)
              THEN <<23, 20>>                                    \* 1.15
              ELSE <<4, 5>>                                      \* 0.8
    ELSE <<1, 1>>

\* Variant of severe_penalty_factor: the elif branch (query HPF-gang,
\* candidate Mart-gang) is missing.
severe_penalty_factor_one_way(q_pg, p_pg, q_sg, p_sg) ==
    IF \/ (q_pg = "Mart_gang" /\ p_pg = "HPF_gang")
       \/ (q_sg = "Mart_gang" /\ p_sg = "HPF_gang")
    THEN <<1, 10>>
    ELSE <<1, 1>>

\* Variant of severe_penalty_factor: 0.1 once for an opposing pair of
\* product groups and once more for an opposing pair of steel grades.
severe_penalty_factor_per_pair(q_pg, p_pg, q_sg, p_sg) ==
    LET opposing(a, b) == \/ (a = "Mart_gang" /\ b = "HPF_gang")
                          \/ (a = "HPF_gang" /\ b = "Mart_gang")
    IN  IF opposing(q_pg, p_pg) /\ opposing(q_sg, p_sg) THEN <<1, 100>>
        ELSE IF opposing(q_pg, p_pg) \/ opposing(q_sg, p_sg) THEN <<1, 10>>
        ELSE <<1, 1>>

\* rag_system.py:290-298: the factor of the severe-penalty step
severe_penalty_factor(q_pg, p_pg, q_sg, p_sg) ==
    IF \/ (q_pg = "Mart_gang" /\ p_pg = "HPF_gang")
       \/ (q_sg = "Mart_gang" /\ p_sg = "HPF_gang")
    THEN <<1, 10>>                                               \* 0.1
    ELSE IF \/ (q_pg = "HPF_gang" /\ p_pg = "Mart_gang")
            \/ (q_sg = "HPF_gang" /\ p_sg = "Mart_gang")
         THEN <<1, 10>>                                          \* 0.1
         ELSE <<1, 1>>

\* Variant of steel_grade_factor: the last band tests "> 0.1", not ">= 0.1".
steel_grade_factor_strict(q_sg, p_sg) ==
    IF q_sg # "" /\ p_sg # ""
    THEN LET steel_grade_similarity ==
                 calculate_steel_grade_similarity(q_sg, p_sg)
         IN  IF steel_grade_similarity >= 90 THEN <<5, 4>>
             ELSE IF steel_grade_similarity >= 70 THEN <<23, 20>>
             ELSE IF steel_grade_similarity >= 50 THEN <<21, 20>>
             ELSE IF steel_grade_similarity >= 30 THEN <<19, 20>>
             ELSE IF steel_grade_similarity > 10 THEN <<3, 4>>
             ELSE <<3, 20>>
    ELSE <<1, 1>>

\* rag_system.py:300-326: the factor of the steel-grade step
steel_grade_factor(q_sg, p_sg) ==
    IF q_sg # "" /\ p_sg # ""
    THEN LET steel_grade_similarity ==
                 calculate_steel_grade_similarity(q_sg, p_sg)
         IN  IF steel_grade_similarity >= 90 THEN <<5, 4>>       \* 1.25
             ELSE IF steel_grade_similarity >= 70 THEN <<23, 20>> \* 1.15
             ELSE IF steel_grade_similarity >= 50 THEN <<21, 20>> \* 1.05
             ELSE IF steel_grade_similarity >= 30 THEN <<19, 20>> \* 0.95
             ELSE IF steel_grade_similarity >= 10 THEN <<3, 4>>  \* 0.75
             ELSE <<3, 20>>                                      \* 0.15
    ELSE <<1, 1>>

\* rag_system.py:328-330: the factor (1 + technical_bonus)
technical_factor(q_text, c_text) ==
    <<(100 + calculate_technical_content_bonus(q_text, c_text)) \div 2, 50>>

\* Variant of clamp: the clamp is missing.
clamp_missing(s) == s

\* rag_system.py:332-333: min(enhanced_score, 100.0)
clamp(s) == Min(s, 100 * Unit)

\* rag_system.py:267-335: the whole function
calculate_enhanced_similarity(base, q_pg, p_pg, q_sg, p_sg, q_text, c_text) ==
    clamp(Mul(Mul(Mul(Mul(ToScore(base),
                          product_group_factor(q_pg, p_pg)),
                      severe_penalty_factor(q_pg, p_pg, q_sg, p_sg)),
                  steel_grade_factor(q_sg, p_sg)),
              technical_factor(q_text, c_text)))

-----------------------------------------------------------------------------
(* QueryEngine: search_similar_patents.                                    *)
(*                                                                         *)
(* A row of patent_data is a record: patent_id, the labels of the columns  *)
(* product_group and steel_grade, the claim text, and cos, the inner       *)
(* product (in hundredths) of its normalised embedding with the normalised *)
(* embedding of the query of the call.  A vector is [of |-> the patent_id *)
(* of the row it was computed from, cos |-> ..., normalized |-> ...].      *)

\* The double-quote character of a JSON text.
DQ == "dq"

\* Python values json.loads can return for the texts modelled here: a str
\* or a list of such values.
PyStr(text) == [type |-> "str", text |-> text, items |-> <<>>]
PyList(items) == [type |-> "list", text |-> <<>>, items |-> items]

\* A failed parse (json.loads raises), and a parse of a value that ends
\* before position next.
ParseError == [ok |-> FALSE, value |-> PyList(<<>>), next |-> 0]
Parsed(value, next) == [ok |-> TRUE, value |-> value, next |-> next]

\* The JSON value that starts at position i of s: a string (any characters
\* up to the next double quote) or an array of values separated by commas.
RECURSIVE parse_value(_, _)
RECURSIVE parse_items(_, _, _)
parse_value(s, i) ==
    IF i > Len(s) THEN ParseError
    ELSE IF s[i] = DQ
    THEN IF \E j \in (i + 1)..Len(s) : s[j] = DQ
         THEN LET j == CHOOSE j \in (i + 1)..Len(s) :
                           s[j] = DQ /\ \A k \in (i + 1)..(j - 1) : s[k] # DQ
              IN  Parsed(PyStr(SubSeq(s, i + 1, j - 1)), j + 1)
         ELSE ParseError
    ELSE IF s[i] = "["
    THEN IF i + 1 <= Len(s) /\ s[i + 1] = "]"
         THEN Parsed(PyList(<<>>), i + 2)
         ELSE parse_items(s, i + 1, <<>>)
    ELSE ParseError

parse_items(s, i, acc) ==
    LET v == parse_value(s, i)
    IN  IF ~v.ok THEN ParseError
        ELSE IF v.next <= Len(s) /\ s[v.next] = ","
        THEN parse_items(s, v.next + 1, Append(acc, v.value))
        ELSE IF v.next <= Len(s) /\ s[v.next] = "]"
        THEN Parsed(PyList(Append(acc, v.value)), v.next + 1)
        ELSE ParseError

\* json.loads(s): the whole text must be one value
json_loads(s) ==
    LET v == parse_value(s, 1)
    IN  IF v.ok /\ v.next = Len(s) + 1 THEN v ELSE ParseError

\* rag_system.py:65-71
safe_parse_json(json_str) ==
    IF json_str = NaN THEN PyList(<<>>)                    \* lines 67-68
    ELSE IF json_loads(json_str).ok
    THEN json_loads(json_str).value                        \* line 69
    ELSE PyList(<<>>)                                      \* lines 70-71

\* Variant of dropna_claim: rows with any missing cell are dropped.
dropna_any(rows) ==
    LET complete(r) == r.claim_text # NaN /\ r.claim_key # NaN
    IN  SelectSeq(rows, complete)

\* self.patent_data.dropna(subset=[claim column]) (line 62)
dropna_claim(rows) ==
    LET has_claim(r) == r.claim_text # NaN
    IN  SelectSeq(rows, has_claim)

\* rag_system.py:55-77, on the rows read from the file: the rows with a
\* claim text, in order, each with the column parsed_keywords.
load_patent_data(rows) ==
    LET kept == dropna_claim(rows)
    IN  [i \in 1..Len(kept) |->
            kept[i] @@ ("parsed_keywords" :> safe_parse_json(kept[i].claim_key))]

\* The vector model.encode computes for the combined text of a row.
Embed(row) == [of |-> row.patent_id, cos |-> row.cos, normalized |-> FALSE]

\* rag_system.py:97-109: one vector per row, in row order
generate_embeddings(rows) == [i \in 1..Len(rows) |-> Embed(rows[i])]

\* rag_system.py:128-142: the index holds the normalised vectors, in order
build_faiss_index(embeddings) ==
    [i \in 1..Len(embeddings) |-> [embeddings[i] EXCEPT !.normalized = TRUE]]

\* What IndexFlatIP.search(query, k) can return (line 153): the k vectors of
\* largest inner product, best first, as <<similarity, 0-based idx>>; vectors
\* of equal inner product in any order; when the index holds fewer than k
\* vectors, the remaining slots are padded with idx -1 and the lowest score.
IndexSearch(vectors, k) ==
    LET n == Len(vectors)
        m == Min(n, k)
        tops == {s \in [1..m -> 0..(n - 1)] :
                    /\ \A a, b \in 1..m : a # b => s[a] # s[b]
                    /\ \A a, b \in 1..m :
                           a < b => vectors[s[a] + 1].cos >= vectors[s[b] + 1].cos
                    /\ \A j \in 0..(n - 1) :
                           (\A a \in 1..m : s[a] # j) =>
                               \A a \in 1..m : vectors[j + 1].cos <= vectors[s[a] + 1].cos}
    IN  {[i \in 1..k |->
            IF i <= m THEN [similarity |-> vectors[s[i] + 1].cos, idx |-> s[i]]
                      ELSE [similarity |-> NegInf, idx |-> -1]] : s \in tops}

\* patent_data.iloc[idx]: a negative idx counts from the end (line 163)
iloc(rows, idx) ==
    IF idx >= 0 THEN rows[idx + 1] ELSE rows[Len(rows) + idx + 1]

\* Variant of insert_desc: an element goes before the elements of equal key
\* (what sorting ascending and reversing the list does).
insert_desc_before_equal(sorted, x) ==
    LET before == {i \in 1..Len(sorted) :
                      sorted[i].similarity_score > x.similarity_score}
        nb == Cardinality(before)
    IN  SubSeq(sorted, 1, nb) \o <<x>> \o SubSeq(sorted, nb + 1, Len(sorted))

\* One insertion of list.sort(key=similarity_score, reverse=True): the sort
\* is stable, so an element goes after every element whose key is greater
\* or equal (line 203).
insert_desc(sorted, x) ==
    LET before == {i \in 1..Len(sorted) :
                      sorted[i].similarity_score >= x.similarity_score}
        nb == Cardinality(before)
    IN  SubSeq(sorted, 1, nb) \o <<x>> \o SubSeq(sorted, nb + 1, Len(sorted))

\* results.sort(key=lambda x: x['similarity_score'], reverse=True)
RECURSIVE sort_desc(_)
sort_desc(s) ==
    IF Len(s) = 0 THEN <<>>
    ELSE insert_desc(sort_desc(SubSeq(s, 1, Len(s) - 1)), s[Len(s)])

\* Variant of extract_year: "/" is looked for before "-".
extract_year_slash_first(d) ==
    IF d = NaN \/ Len(d) = 0 THEN 2020
    ELSE LET part == IF \E i \in 1..Len(d) : d[i] = "/" THEN before_first(d, "/")
                     ELSE IF \E i \in 1..Len(d) : d[i] = "-" THEN before_first(d, "-")
                     ELSE IF Len(d) >= 4 THEN SubSeq(d, 1, 4)
                     ELSE <<>>
             parsed == int_of(part)
         IN  IF parsed.ok THEN parsed.value ELSE 2020

\* rag_system.py:477-494, on a text or a missing cell.  A ValueError of
\* int() is caught by the bare except (line 493).
extract_year(d) ==
    IF d = NaN \/ Len(d) = 0 THEN 2020                      \* lines 480-481
    ELSE IF \E i \in 1..Len(d) : d[i] = "-"
         THEN LET parsed == int_of(before_first(d, "-"))   \* lines 485-486
              IN  IF parsed.ok THEN parsed.value ELSE 2020
    ELSE IF \E i \in 1..Len(d) : d[i] = "/"
         THEN LET parsed == int_of(before_first(d, "/"))   \* lines 487-488
              IN  IF parsed.ok THEN parsed.value ELSE 2020
    ELSE IF Len(d) >= 4
         THEN LET parsed == int_of(SubSeq(d, 1, 4))        \* lines 489-490
              IN  IF parsed.ok THEN parsed.value ELSE 2020
    ELSE 2020                                               \* line 492

\* Variant of slot_is_kept: the guard also rejects the negative idx of a
\* padded slot.
slot_is_kept_nonnegative(rows, idx) == 0 <= idx /\ idx < Len(rows)

\* "if idx < len(self.patent_data)" (line 162)
slot_is_kept(rows, idx) == idx < Len(rows)

\* A blank cell of a label column of the corpus table (pandas NaN).  The
\* label "" of a row stands for a table without the column.
MissingLabel == "<NaN>"

\* str(patent.get(column, '')) (lines 177-178): '' without the column,
\* 'nan' for a blank cell, the text of the cell otherwise
str_of_label(cell) == IF cell = MissingLabel THEN "nan" ELSE cell

\* The result built for slot i of the raw answer (lines 163-200).  slot is
\* the loop counter i; idx is the index the vector index reported.
result_of(rows, raw_slots, i, q_pg, q_sg, q_text) ==
    LET similarity == raw_slots[i].similarity
        idx == raw_slots[i].idx
        patent == iloc(rows, idx)
    IN  [slot |-> i - 1,
         idx |-> idx,
         patent_id |-> patent.patent_id,
         product_group |-> str_of_label(patent.product_group),
         steel_grade |-> str_of_label(patent.steel_grade),
         claim_text |-> patent.claim_text,
         country_code |-> patent.country_code,
         applicant |-> patent.applicant,
         application_year |-> extract_year(patent.application_date),
         base_similarity |-> ToScore(similarity),
         similarity_score |->
             calculate_enhanced_similarity(similarity,
                                           q_pg, str_of_label(patent.product_group),
                                           q_sg, str_of_label(patent.steel_grade),
                                           q_text, patent.claim_text)]

\* The loop of lines 160-200 over the first i slots.
RECURSIVE collect_results(_, _, _, _, _, _)
collect_results(rows, raw_slots, i, q_pg, q_sg, q_text) ==
    IF i = 0 THEN <<>>
    ELSE LET earlier == collect_results(rows, raw_slots, i - 1, q_pg, q_sg, q_text)
         IN  IF slot_is_kept(rows, raw_slots[i].idx)
             THEN Append(earlier, result_of(rows, raw_slots, i, q_pg, q_sg, q_text))
             ELSE earlier

\* Variant of raw_request: only top_k raw candidates are requested.
raw_request_top_k(k) == k

\* The number of raw candidates asked of the index: "top_k * 2" (line 153)
raw_request(k) == k * 2

\* rag_system.py:144-207, given the answer raw_slots of the index
search_similar_patents(rows, raw_slots, q_text, k) ==
    LET q_pg == extract_product_group_from_query(q_text)
        q_sg == extract_steel_grade_from_query(q_text)
        found == collect_results(rows, raw_slots, Len(raw_slots), q_pg, q_sg, q_text)
        sorted == sort_desc(found)
    IN  SubSeq(sorted, 1, Min(k, Len(sorted)))                  \* results[:top_k]

\* A filters argument is None or a dict; it is modelled as a record of the
\* four keys the code looks up, an absent key being None, of the set
\* unknown of the other keys of the dict, and of the flag is_none.
\* "if filters:" (line 605) is false for None and for the empty dict.
EmptyDict ==
    [is_none |-> FALSE, country |-> None, year_range |-> None,
     applicant |-> None, min_similarity |-> None, unknown |-> {}]

NoFilters == [EmptyDict EXCEPT !.is_none = TRUE]

is_truthy(f) == ~f.is_none /\ f # EmptyDict

\* Variant of include: a score equal to min_similarity is rejected.
include_min_exclusive(result, f) ==
    /\ f.country # None =>
           \E i \in 1..Len(f.country[1]) : f.country[1][i] = result.country_code
    /\ f.year_range # None =>
           /\ f.year_range[1][1] <= result.application_year
           /\ result.application_year <= f.year_range[1][2]
    /\ f.applicant # None =>
           \E i \in 1..Len(f.applicant[1]) :
               contains(lower(result.applicant), lower(f.applicant[1][i]))
    /\ f.min_similarity # None =>
           result.similarity_score > ToScore(f.min_similarity[1])

\* Variant of include: a dict with a key the code does not know rejects
\* every result.
include_known_keys_only(result, f) ==
    /\ f.unknown = {}
    /\ f.country # None =>
           \E i \in 1..Len(f.country[1]) : f.country[1][i] = result.country_code
    /\ f.year_range # None =>
           /\ f.year_range[1][1] <= result.application_year
           /\ result.application_year <= f.year_range[1][2]
    /\ f.applicant # None =>
           \E i \in 1..Len(f.applicant[1]) :
               contains(lower(result.applicant), lower(f.applicant[1][i]))
    /\ f.min_similarity # None =>
           ~(result.similarity_score < ToScore(f.min_similarity[1]))

\* The value of the flag include at line 631, for one result (lines 608-629)
include(result, f) ==
    /\ f.country # None =>                                   \* lines 611-612
           \E i \in 1..Len(f.country[1]) : f.country[1][i] = result.country_code
    /\ f.year_range # None =>                                \* lines 615-618
           /\ f.year_range[1][1] <= result.application_year
           /\ result.application_year <= f.year_range[1][2]
    /\ f.applicant # None =>                                 \* lines 621-624
           \E i \in 1..Len(f.applicant[1]) :
               contains(lower(result.applicant), lower(f.applicant[1][i]))
    /\ f.min_similarity # None =>                            \* lines 627-629
           ~(result.similarity_score < ToScore(f.min_similarity[1]))

\* The loop of lines 607-632 over the first i results.
RECURSIVE filter_results(_, _, _)
filter_results(found, f, i) ==
    IF i = 0 THEN <<>>
    ELSE IF include(found[i], f)
         THEN Append(filter_results(found, f, i - 1), found[i])
         ELSE filter_results(found, f, i - 1)

\* s[:k]
head(s, k) == SubSeq(s, 1, Min(k, Len(s)))

\* Variant of after_search: the ranked list is cut to top_k before the
\* filter is applied.
after_search_cut_first(found, f, k) ==
    IF is_truthy(f)
    THEN filter_results(head(found, k), f, Len(head(found, k)))
    ELSE head(found, k)

\* rag_system.py:604-636: what enhanced_similarity_search returns, given
\* the list found that search_similar_patents returned at line 602.
after_search(found, f, k) ==
    IF is_truthy(f)
    THEN head(head(filter_results(found, f, Len(found)), k), k)
    ELSE head(found, k)

-----------------------------------------------------------------------------
(* EntityExtractor: _extract_components_from_claim.                        *)

\* r'X\s*:\s*([\d.~%\s\w...]+)' for an element symbol X (lines 502-510)
ShortElement(X) ==
    [atoms |-> <<Lit(<<X>>), Star("space"), One(":"), Star("space"), Plus("value")>>,
     group |-> 5]

\* r'(?:kor|eng)\s*\(?\s*X\s*\)?\s*[:\s]*([\d.~%\s\w...]+)' (lines 512-519)
NamedElement(kor, eng, X) ==
    [atoms |-> <<Lit(<<kor, eng>>), Star("space"), Opt("("), Star("space"),
                 Lit(<<X>>), Star("space"), Opt(")"), Star("space"),
                 Star("colon_space"), Plus("value")>>,
     group |-> 10]

\* r'(?:names).*?(\d+\s*%[^,]*)' (lines 524-528, 551)
PercentAfter(names) ==
    [atoms |-> <<Lit(names), LazyStar("dot"), Plus("digit"), Star("space"),
                 One("%"), Star("not_comma")>>,
     group |-> 3]

\* r'first\s*second.*?(\d+\s*[MG]?Pa[^,]*)' (lines 549-550)
PascalAfter(first, second) ==
    [atoms |-> <<Lit(<<first>>), Star("space"), Lit(<<second>>), LazyStar("dot"),
                 Plus("digit"), Star("space"), Opt("MG"), Lit(<<<<"P", "a">>>>),
                 Star("not_comma")>>,
     group |-> 5]

\* r'name.*?(\d+\s*unit?[^,]*)' (line 552)
NumberAfter(name, unit) ==
    [atoms |-> <<Lit(<<name>>), LazyStar("dot"), Plus("digit"), Star("space"),
                 Opt(unit), Star("not_comma")>>,
     group |-> 3]

\* lines 501-520
element_patterns ==
    <<
       [p |-> ShortElement(<<"C">>), label |-> <<"C">>],
       [p |-> ShortElement(<<"S", "i">>), label |-> <<"S", "i">>],
       [p |-> ShortElement(<<"M", "n">>), label |-> <<"M", "n">>],
       [p |-> ShortElement(<<"P">>), label |-> <<"P">>],
       [p |-> ShortElement(<<"S">>), label |-> <<"S">>],
       [p |-> ShortElement(<<"C", "r">>), label |-> <<"C", "r">>],
       [p |-> ShortElement(<<"M", "o">>), label |-> <<"M", "o">>],
       [p |-> ShortElement(<<"T", "i">>), label |-> <<"T", "i">>],
       [p |-> ShortElement(<<"N", "b">>), label |-> <<"N", "b">>],
       [p |-> NamedElement(<<"_tan", "_so">>,
                           <<"c", "a", "r", "b", "o", "n">>, <<"C">>),
        label |-> <<"C">>],
       [p |-> NamedElement(<<"_sil", "_ri", "_kon">>,
                           <<"s", "i", "l", "i", "c", "o", "n">>, <<"S", "i">>),
        label |-> <<"S", "i">>],
       [p |-> NamedElement(<<"_mang", "_gan">>,
                           <<"m", "a", "n", "g", "a", "n", "e", "s", "e">>, <<"M", "n">>),
        label |-> <<"M", "n">>],
       [p |-> NamedElement(<<"_in">>,
                           <<"p", "h", "o", "s", "p", "h", "o", "r", "u", "s">>, <<"P">>),
        label |-> <<"P">>],
       [p |-> NamedElement(<<"_hwang">>,
                           <<"s", "u", "l", "f", "u", "r">>, <<"S">>),
        label |-> <<"S">>],
       [p |-> NamedElement(<<"_keu", "_rom">>,
                           <<"c", "h", "r", "o", "m", "i", "u", "m">>, <<"C", "r">>),
        label |-> <<"C", "r">>],
       [p |-> NamedElement(<<"_bung", "_so">>,
                           <<"b", "o", "r", "o", "n">>, <<"B">>),
        label |-> <<"B">>],
       [p |-> NamedElement(<<"_al", "_ru", "_mi", "_nyum">>,
                           <<"a", "l", "u", "m", "i", "n", "u", "m">>, <<"A", "l">>),
        label |-> <<"A", "l">>]
    >>

\* lines 523-529
microstructure_patterns ==
    <<
       [p |-> PercentAfter(<<<<"_ma", "_reu", "_ten", "_sa", "_i", "_teu">>,
                             <<"_ma", "_ten", "_ja", "_i", "_teu">>,
                             <<"m", "a", "r", "t", "e", "n", "s", "i", "t", "e">>>>),
        label |-> <<"_ma", "_reu", "_ten", "_sa", "_i", "_teu">>],
       [p |-> PercentAfter(<<<<"_be", "_i", "_na", "_i", "_teu">>,
                             <<"b", "a", "i", "n", "i", "t", "e">>>>),
        label |-> <<"_be", "_i", "_na", "_i", "_teu">>],
       [p |-> PercentAfter(<<<<"_o", "_seu", "_te", "_na", "_i", "_teu">>,
                             <<"a", "u", "s", "t", "e", "n", "i", "t", "e">>>>),
        label |-> <<"_o", "_seu", "_te", "_na", "_i", "_teu">>],
       [p |-> PercentAfter(<<<<"_pe", "_ra", "_i", "_teu">>,
                             <<"f", "e", "r", "r", "i", "t", "e">>>>),
        label |-> <<"_pe", "_ra", "_i", "_teu">>],
       [p |-> PercentAfter(<<<<"_peol", "_ra", "_i", "_teu">>,
                             <<"p", "e", "a", "r", "l", "i", "t", "e">>>>),
        label |-> <<"_peol", "_ra", "_i", "_teu">>]
    >>

\* lines 548-553
mechanical_patterns ==
    << [p |-> PascalAfter(<<"_in", "_jang">>, <<"_gang", "_do">>),
        label |-> <<"_in", "_jang", "_gang", "_do">>],
       [p |-> PascalAfter(<<"_hang", "_bok">>, <<"_gang", "_do">>),
        label |-> <<"_hang", "_bok", "_gang", "_do">>],
       [p |-> PercentAfter(<<<<"_yeon", "_sin">>>>),
        label |-> <<"_yeon", "_sin", "_yul">>],
       [p |-> NumberAfter(<<"_gup", "_him">>, "_do"),
        label |-> <<"_gup", "_him", "_seong">>] >>

\* r'reul?\s*ham-yu-ha(go)?' of the re.sub of line 537
filler_pattern ==
    [atoms |-> <<Opt("_reul"), Star("space"), Lit(<<<<"_ham", "_yu", "_ha">>>>),
                 Opt("_go")>>,
     group |-> 1]

\* f"{label}: {value}"
format_entry(label, value) == label \o <<":", " ">> \o value

\* The value of an element match (lines 535-537)
element_value(match) == strip(sub_empty(filler_pattern, strip(match), 1))

\* Variant of element_entries: a match whose value is empty is kept.
RECURSIVE element_entries_keep_empty(_, _, _)
element_entries_keep_empty(label, matches, i) ==
    IF i > Len(matches) THEN <<>>
    ELSE <<format_entry(label, element_value(matches[i]))>>
             \o element_entries_keep_empty(label, matches, i + 1)

\* The inner loop of lines 534-539 from match i on: an entry for every
\* match whose value is not empty.
RECURSIVE element_entries(_, _, _)
element_entries(label, matches, i) ==
    IF i > Len(matches) THEN <<>>
    ELSE LET value == element_value(matches[i])
         IN  (IF Len(value) > 0 THEN <<format_entry(label, value)>> ELSE <<>>)
                 \o element_entries(label, matches, i + 1)

\* The inner loop of lines 544-545 and 557-558 from match i on.
RECURSIVE plain_entries(_, _, _)
plain_entries(label, matches, i) ==
    IF i > Len(matches) THEN <<>>
    ELSE <<format_entry(label, strip(matches[i]))>>
             \o plain_entries(label, matches, i + 1)

\* The outer loops, from pattern k of the list on.
RECURSIVE element_components(_, _)
element_components(text, k) ==
    IF k > Len(element_patterns) THEN <<>>
    ELSE element_entries(element_patterns[k].label,
                         findall(element_patterns[k].p, text, 1), 1)
             \o element_components(text, k + 1)

RECURSIVE plain_components(_, _, _)
plain_components(patterns, text, k) ==
    IF k > Len(patterns) THEN <<>>
    ELSE plain_entries(patterns[k].label, findall(patterns[k].p, text, 1), 1)
             \o plain_components(patterns, text, k + 1)

\* rag_system.py:496-560
extract_components_from_claim(text) ==
    element_components(text, 1)
        \o plain_components(microstructure_patterns, text, 1)
        \o plain_components(mechanical_patterns, text, 1)

-----------------------------------------------------------------------------
(* One call of _calculate_enhanced_similarity, statement by statement.     *)

ProductGroupLabels ==
    {product_group_keywords[i].label : i \in 1..Len(product_group_keywords)}

SteelGradeLabels ==
    {steel_grade_keywords[i].label : i \in 1..Len(steel_grade_keywords)}

\* What the classifiers can return for a query.
QueryProductGroups == ProductGroupLabels \cup {""}
QuerySteelGrades == SteelGradeLabels \cup {""}

\* What str(patent.get(column, '')) can be for a corpus row: a label, the
\* empty string, or any other text ("nan" is str() of a missing cell).
PatentProductGroups == ProductGroupLabels \cup {"", "nan"}
PatentSteelGrades == SteelGradeLabels \cup {"", "nan"}

\* The technical terms, shortest first: the sample texts take a prefix.
TermOrder == <<8, 9, 10, 12, 15, 16, 7, 11, 14, 17, 1, 2, 3, 4, 5, 6, 13>>

\* The text holding the first n terms of TermOrder, separated by blanks.
RECURSIVE TermsText(_)
TermsText(n) ==
    IF n = 0 THEN <<>>
    ELSE IF n = 1 THEN technical_terms[TermOrder[1]]
    ELSE TermsText(n - 1) \o <<" ">> \o technical_terms[TermOrder[n]]

\* Number of technical terms in the longest sample text.
MaxSharedTerms == 6

\* The sample calls: <<base similarity in percentage points, number of
\* technical terms the claim text shares with the query text>>.
AdjSamples == {<<50, 0>>, <<100, MaxSharedTerms>>}

\* No classifier call is modelled.
ClsIdle ==
    /\ cls_query_text = <<>>
    /\ cls_product_group = ""
    /\ cls_steel_grade = ""
    /\ cls_returned = {}

\* No search is modelled.
SrchIdle ==
    /\ patent_data = <<>>
    /\ index = <<>>
    /\ srch_query_text = <<>>
    /\ top_k = 0
    /\ raw = <<>>
    /\ results = <<>>
    /\ srch_pc = "idle"

\* No engine is modelled.
EngIdle ==
    /\ csv_file = None
    /\ embeddings_cache = None
    /\ rag_system = 0
    /\ engines = <<>>
    /\ thread = <<>>

\* No filtered search is modelled.
FltIdle ==
    /\ filters = None
    /\ ranked = <<>>
    /\ filtered_results = None

\* No year extraction is modelled.
YrIdle ==
    /\ date_str = <<>>
    /\ year = 0
    /\ yr_pc = "idle"

\* No application is modelled.
ApiIdle ==
    /\ app_rag_system = "None"
    /\ module_engine = None
    /\ corpus_ok = FALSE
    /\ request = None
    /\ response = None
    /\ api_pc = "idle"

\* No summarization is modelled.
SumIdle ==
    /\ backend = ""
    /\ api_key = ""
    /\ completion = ""
    /\ rag = ""
    /\ patent_data_req = None
    /\ sum_response = None

\* No corpus load is modelled.
LoadIdle ==
    /\ csv_rows = <<>>
    /\ loaded_data = None
    /\ load_pc = "idle"

\* No concurrent queries are modelled.
CqIdle ==
    /\ calls = <<>>
    /\ local_results = <<>>

\* No component extraction is modelled.
CmpIdle ==
    /\ cmp_claim_text = <<>>
    /\ components = <<>>
    /\ cmp_pc = "idle"

\* No plain call after an enhanced call is modelled.
EqvIdle ==
    /\ plain_raw = <<>>
    /\ plain_results = <<>>

\* No call of get_rag_system is logged.
SglIdle ==
    /\ call_log = <<>>

\* The groups above, but for group g, are idle.
ExtIdleExcept(g) ==
    /\ IF g = "flt" THEN TRUE ELSE FltIdle
    /\ IF g = "yr" THEN TRUE ELSE YrIdle
    /\ IF g = "api" THEN TRUE ELSE ApiIdle
    /\ IF g = "sum" THEN TRUE ELSE SumIdle
    /\ IF g = "load" THEN TRUE ELSE LoadIdle
    /\ IF g = "cq" THEN TRUE ELSE CqIdle
    /\ IF g = "cmp" THEN TRUE ELSE CmpIdle
    /\ IF g = "eqv" THEN TRUE ELSE EqvIdle
    /\ IF g = "sgl" THEN TRUE ELSE SglIdle

\* The groups above, but for group g, are left alone.
ExtFrameExcept(g) ==
    /\ IF g = "flt" THEN TRUE ELSE UNCHANGED flt_vars
    /\ IF g = "yr" THEN TRUE ELSE UNCHANGED yr_vars
    /\ IF g = "api" THEN TRUE ELSE UNCHANGED api_vars
    /\ IF g = "sum" THEN TRUE ELSE UNCHANGED sum_vars
    /\ IF g = "load" THEN TRUE ELSE UNCHANGED load_vars
    /\ IF g = "cq" THEN TRUE ELSE UNCHANGED cq_vars
    /\ IF g = "cmp" THEN TRUE ELSE UNCHANGED cmp_vars
    /\ IF g = "eqv" THEN TRUE ELSE UNCHANGED eqv_vars
    /\ IF g = "sgl" THEN TRUE ELSE UNCHANGED sgl_vars

ExtIdle == ExtIdleExcept("")

AdjInit ==
    /\ ClsIdle
    /\ SrchIdle
    /\ EngIdle
    /\ ExtIdle
    /\ \E s \in AdjSamples :
          /\ base_similarity = s[1]
          /\ claim_text = TermsText(s[2])
    /\ query_product_group \in QueryProductGroups
    /\ patent_product_group \in PatentProductGroups
    /\ query_steel_grade \in QuerySteelGrades
    /\ patent_steel_grade \in PatentSteelGrades
    /\ query_text = TermsText(MaxSharedTerms)
    /\ enhanced_score = ToScore(base_similarity)      \* line 273
    /\ adj_pc = "product_group"

AdjInputs == <<base_similarity, query_product_group, patent_product_group,
               query_steel_grade, patent_steel_grade, query_text, claim_text>>

\* lines 275-288
ProductGroupStep ==
    /\ adj_pc = "product_group"
    /\ enhanced_score' = Mul(enhanced_score,
           product_group_factor(query_product_group, patent_product_group))
    /\ adj_pc' = "severe_penalty"
    /\ UNCHANGED AdjInputs
    /\ UNCHANGED <<cls_vars, srch_vars, eng_vars, ext_vars>>

\* lines 290-298
SeverePenaltyStep ==
    /\ adj_pc = "severe_penalty"
    /\ enhanced_score' = Mul(enhanced_score,
           severe_penalty_factor(query_product_group, patent_product_group,
                                 query_steel_grade, patent_steel_grade))
    /\ adj_pc' = "steel_grade"
    /\ UNCHANGED AdjInputs
    /\ UNCHANGED <<cls_vars, srch_vars, eng_vars, ext_vars>>

\* lines 300-326
SteelGradeStep ==
    /\ adj_pc = "steel_grade"
    /\ enhanced_score' = Mul(enhanced_score,
           steel_grade_factor(query_steel_grade, patent_steel_grade))
    /\ adj_pc' = "technical"
    /\ UNCHANGED AdjInputs
    /\ UNCHANGED <<cls_vars, srch_vars, eng_vars, ext_vars>>

\* lines 328-330
TechnicalStep ==
    /\ adj_pc = "technical"
    /\ enhanced_score' = Mul(enhanced_score,
                             technical_factor(query_text, claim_text))
    /\ adj_pc' = "clamp"
    /\ UNCHANGED AdjInputs
    /\ UNCHANGED <<cls_vars, srch_vars, eng_vars, ext_vars>>

\* lines 332-335
ClampStep ==
    /\ adj_pc = "clamp"
    /\ enhanced_score' = clamp(enhanced_score)
    /\ adj_pc' = "return"
    /\ UNCHANGED AdjInputs
    /\ UNCHANGED <<cls_vars, srch_vars, eng_vars, ext_vars>>

AdjNext ==
    \/ ProductGroupStep
    \/ SeverePenaltyStep
    \/ SteelGradeStep
    \/ TechnicalStep
    \/ ClampStep

SpecAdjust == AdjInit /\ [][AdjNext]_vars

-----------------------------------------------------------------------------
(* Properties of _calculate_enhanced_similarity, under SpecAdjust.         *)

\* The running score after step 1 and after step 2 of the current call.
AfterStep1 ==
    Mul(ToScore(base_similarity),
        product_group_factor(query_product_group, patent_product_group))

AfterStep2 ==
    Mul(AfterStep1,
        severe_penalty_factor(query_product_group, patent_product_group,
                              query_steel_grade, patent_steel_grade))

\* The product of the four factors, before the clamp.
Unclamped ==
    Mul(Mul(AfterStep2, steel_grade_factor(query_steel_grade, patent_steel_grade)),
        technical_factor(query_text, claim_text))

\* C1: for every base similarity, every combination of labels and every
\* pair of texts, _calculate_enhanced_similarity returns a value <= 100.0.
C1_ScoreAtMost100 ==
    adj_pc = "return" => enhanced_score <= 100 * Unit

\* A call whose product of factors exceeds 100 and that returned 100.
C1_Witness ==
    /\ adj_pc = "return"
    /\ Unclamped > 100 * Unit
    /\ enhanced_score = 100 * Unit

\* The related-groups table read as a relation, as the claim states it.
RelatedPerTable(q, p) == \E e \in related_groups : e[1] = q /\ p \in e[2]

\* C5: step 1 multiplies the running score by exactly one factor: 1.30 when
\* the groups are equal, 1.15 when they differ but are related per the
\* related-groups table, 0.80 when both are non-empty and neither equal nor
\* related, and no factor when either group is the empty string.
C5_ProductGroupStep ==
    adj_pc = "severe_penalty" =>
        LET q == query_product_group
            p == patent_product_group
            b == ToScore(base_similarity)
        IN  /\ (q = "" \/ p = "") => enhanced_score = b
            /\ (q # "" /\ p # "" /\ q = p) => enhanced_score * 10 = b * 13
            /\ (q # "" /\ p # "" /\ q # p /\ RelatedPerTable(q, p))
                   => enhanced_score * 20 = b * 23
            /\ (q # "" /\ p # "" /\ q # p /\ ~RelatedPerTable(q, p))
                   => enhanced_score * 5 = b * 4

\* Step 1 has run on a related pair and applied 1.15.
C5_Witness ==
    /\ adj_pc = "severe_penalty"
    /\ query_product_group = "_gang_pan"
    /\ patent_product_group = "_yeol_yeon_gang_pan"
    /\ base_similarity = 50
    /\ enhanced_score * 20 = ToScore(50) * 23

\* The opposing pair HPF-gang vs Mart-gang, in either direction.
Opposing(a, b) == {a, b} = {"HPF_gang", "Mart_gang"}

\* C6: step 2 multiplies the running score by 0.10, in addition to what
\* step 1 applied, exactly when the product groups or the steel grades are
\* the opposing pair in either direction; otherwise it leaves the score
\* unchanged.
C6_SeverePenaltyStep ==
    adj_pc = "steel_grade" =>
        IF \/ Opposing(query_product_group, patent_product_group)
           \/ Opposing(query_steel_grade, patent_steel_grade)
        THEN enhanced_score * 10 = AfterStep1
        ELSE enhanced_score = AfterStep1

\* Step 2 has run on a pair opposed by grade only (query HPF, candidate
\* Mart) whose equal product groups earned 1.30 in step 1.
C6_Witness ==
    /\ adj_pc = "steel_grade"
    /\ query_steel_grade = "HPF_gang"
    /\ patent_steel_grade = "Mart_gang"
    /\ query_product_group = "_gang_pan"
    /\ patent_product_group = "_gang_pan"
    /\ base_similarity = 50
    /\ enhanced_score * 100 = ToScore(50) * 13

\* C27: the severe penalty is applied at most once per candidate: when the
\* product groups and the steel grades are both the opposing pair, in the
\* same or in opposite directions, step 2 multiplies the running score by
\* 0.10, never by 0.01.
C27_SeverePenaltyOnce ==
    (/\ adj_pc = "steel_grade"
     /\ Opposing(query_product_group, patent_product_group)
     /\ Opposing(query_steel_grade, patent_steel_grade)) =>
        /\ enhanced_score * 10 = AfterStep1
        /\ enhanced_score * 100 # AfterStep1

\* Step 2 has run on a candidate opposed to the query in both pairs, in
\* opposite directions: groups Mart-gang / HPF-gang, grades HPF-gang /
\* Mart-gang.
C27_Witness ==
    /\ adj_pc = "steel_grade"
    /\ query_product_group = "Mart_gang"
    /\ patent_product_group = "HPF_gang"
    /\ query_steel_grade = "HPF_gang"
    /\ patent_steel_grade = "Mart_gang"
    /\ base_similarity = 50
    /\ enhanced_score * 10 = AfterStep1

\* The call of the documented test: base 50, query group Mart-gang,
\* candidate group HPF-gang, no grades, no shared technical term.
C7_Case ==
    /\ adj_pc = "return"
    /\ base_similarity = 50
    /\ query_product_group = "Mart_gang"
    /\ patent_product_group = "HPF_gang"
    /\ query_steel_grade = ""
    /\ patent_steel_grade = ""
    /\ calculate_technical_content_bonus(query_text, claim_text) = 0

\* C7 as stated: the adjusted score of that call is 50 x 0.80 x 0.10 = 4.0.
C7_Original == C7_Case => enhanced_score = 4 * Unit

\* C7 amended: the pair is related per the related-groups table, so step 1
\* applies 1.15 and the adjusted score is 50 x 1.15 x 0.10 = 5.75.
C7_Amended == C7_Case => enhanced_score * 4 = 23 * Unit

C7_Witness == C7_Case /\ enhanced_score * 4 = 23 * Unit

\* The multiplier of the band the claim assigns to a grade similarity s
\* (in hundredths).
BandOf(s) ==
    IF s >= 90 THEN <<5, 4>>
    ELSE IF 70 <= s /\ s < 90 THEN <<23, 20>>
    ELSE IF 50 <= s /\ s < 70 THEN <<21, 20>>
    ELSE IF 30 <= s /\ s < 50 THEN <<19, 20>>
    ELSE IF 10 <= s /\ s < 30 THEN <<3, 4>>
    ELSE <<3, 20>>

\* C8: step 3 is applied only when both steel grades are non-empty, and
\* then multiplies the score by the band of the grade similarity; a pair at
\* the default similarity 0.1 gets 0.75 and only the HPF-gang/Mart-gang pair
\* gets 0.15.
C8_SteelGradeStep ==
    adj_pc = "technical" =>
        LET q == query_steel_grade
            p == patent_steel_grade
            s == calculate_steel_grade_similarity(q, p)
        IN  /\ (q = "" \/ p = "") => enhanced_score = AfterStep2
            /\ (q # "" /\ p # "") =>
                   /\ enhanced_score = Mul(AfterStep2, BandOf(s))
                   /\ s = 10 => enhanced_score * 4 = AfterStep2 * 3
                   /\ AfterStep2 # 0 =>
                          ((enhanced_score * 20 = AfterStep2 * 3) <=> Opposing(q, p))

\* Step 3 has run on a pair with no matrix entry (similarity 0.1) and
\* applied 0.75.
C8_Witness ==
    /\ adj_pc = "technical"
    /\ query_steel_grade = "DP_gang"
    /\ patent_steel_grade = "nan"
    /\ calculate_steel_grade_similarity("DP_gang", "nan") = 10
    /\ AfterStep2 # 0
    /\ enhanced_score * 4 = AfterStep2 * 3

-----------------------------------------------------------------------------
(* _calculate_enhanced_similarity on texts that share 0, 1, 2, ...         *)
(* technical terms.                                                        *)

\* The text holding terms a..b of TermOrder, separated by blanks.
RECURSIVE TermsRange(_, _)
TermsRange(a, b) ==
    IF a > b THEN <<>>
    ELSE IF a = b THEN technical_terms[TermOrder[a]]
    ELSE TermsRange(a, b - 1) \o <<" ">> \o technical_terms[TermOrder[b]]

\* The calls: the query names the first i terms, the claim the terms from
\* the k-th on; few label combinations.
AdjTextInit ==
    /\ ClsIdle
    /\ SrchIdle
    /\ EngIdle
    /\ ExtIdle
    /\ base_similarity \in {50, 100}
    /\ query_product_group \in {"", "HPF_gang"}
    /\ patent_product_group \in {"", "HPF_gang"}
    /\ query_steel_grade = ""
    /\ patent_steel_grade = ""
    /\ \E i \in 0..MaxSharedTerms : query_text = TermsRange(1, i)
    /\ \E k \in 1..(MaxSharedTerms + 1) : claim_text = TermsRange(k, MaxSharedTerms)
    /\ enhanced_score = ToScore(base_similarity)
    /\ adj_pc = "product_group"

SpecAdjustTexts == AdjTextInit /\ [][AdjNext]_vars

\* The running score after step 3 of the current call.
AfterStep3 ==
    Mul(AfterStep2, steel_grade_factor(query_steel_grade, patent_steel_grade))

\* The number of vocabulary terms contained in both texts of the call.
SharedTerms ==
    Cardinality({i \in 1..Len(technical_terms) :
        /\ \E a \in 0..(Len(query_text) - Len(technical_terms[i])) :
               \A j \in 1..Len(technical_terms[i]) :
                   lower_char(query_text[a + j]) = technical_terms[i][j]
        /\ \E a \in 0..(Len(claim_text) - Len(technical_terms[i])) :
               \A j \in 1..Len(technical_terms[i]) :
                   lower_char(claim_text[a + j]) = technical_terms[i][j]})

\* C18: the technical-term bonus is min(0.02 x n, 0.10) for n vocabulary
\* terms contained in both texts; the step-4 multiplier (1 + bonus) lies in
\* [1.00, 1.10], never lowers the score, and is the same for five or more
\* shared terms.
C18_TechnicalBonus ==
    adj_pc = "clamp" =>
        /\ calculate_technical_content_bonus(query_text, claim_text)
               = Min(2 * SharedTerms, 10)
        /\ enhanced_score = (AfterStep3 \div 100) * (100 + Min(2 * SharedTerms, 10))
        /\ enhanced_score >= AfterStep3
        /\ enhanced_score * 10 <= AfterStep3 * 11
        /\ SharedTerms >= 5 => enhanced_score * 10 = AfterStep3 * 11

\* Step 4 has run on texts sharing more than five terms and applied 1.10.
C18_Witness ==
    /\ adj_pc = "clamp"
    /\ SharedTerms > 5
    /\ AfterStep3 > 0
    /\ enhanced_score * 10 = AfterStep3 * 11

\* The matrix has an entry for the pair, in one direction or the other.
HasMatrixEntry(a, b) ==
    \E e \in similarity_matrix :
        (e[1] = a /\ e[2] = b) \/ (e[1] = b /\ e[2] = a)

\* The grades of the current call, and their similarity both ways round.
SimQP == calculate_steel_grade_similarity(query_steel_grade, patent_steel_grade)
SimPQ == calculate_steel_grade_similarity(patent_steel_grade, query_steel_grade)

\* What C17 states but for the default value: the similarity is symmetric,
\* lies in [0, 1], and step 3 applied the band of the value looked up either
\* way round.
SymmetricInRange ==
    /\ SimQP = SimPQ
    /\ 0 <= SimQP /\ SimQP <= 100
    /\ (query_steel_grade # "" /\ patent_steel_grade # "") =>
           enhanced_score = Mul(AfterStep2, BandOf(SimPQ))

\* C17 as stated: the steel-grade similarity is symmetric, lies in [0, 1],
\* and is 0.1 for every pair that has no matrix entry in either direction.
C17_Original ==
    adj_pc = "technical" =>
        /\ SymmetricInRange
        /\ ~HasMatrixEntry(query_steel_grade, patent_steel_grade) => SimQP = 10

\* C17 amended: the steel-grade similarity is symmetric, lies in [0, 1], is
\* 1.0 for two identical grades (known to the matrix or not), and is 0.1
\* for every pair of distinct grades that has no matrix entry in either
\* direction.
C17_Amended ==
    adj_pc = "technical" =>
        /\ SymmetricInRange
        /\ query_steel_grade = patent_steel_grade => SimQP = 100
        /\ ( /\ query_steel_grade # patent_steel_grade
             /\ ~HasMatrixEntry(query_steel_grade, patent_steel_grade) )
               => SimQP = 10

\* Step 3 has run for the query grade CP-gang, which is a column but not a
\* row of the matrix, against HPF-gang, and applied the band of 0.35.
C17_Witness ==
    /\ adj_pc = "technical"
    /\ query_steel_grade = "CP_gang"
    /\ patent_steel_grade = "HPF_gang"
    /\ ~\E e \in similarity_matrix : e[1] = "CP_gang"
    /\ SimQP = 35
    /\ AfterStep2 # 0
    /\ enhanced_score * 20 = AfterStep2 * 19

-----------------------------------------------------------------------------
(* The two classifiers applied to one text.                                *)

\* No adjuster call is modelled.
AdjIdle ==
    /\ base_similarity = 0
    /\ query_product_group = ""
    /\ patent_product_group = ""
    /\ query_steel_grade = ""
    /\ patent_steel_grade = ""
    /\ query_text = <<>>
    /\ claim_text = <<>>
    /\ enhanced_score = 0
    /\ adj_pc = "idle"

KeywordsOf(table) ==
    UNION {{table[i].keywords[k] : k \in 1..Len(table[i].keywords)} :
              i \in 1..Len(table)}

\* The entry of a table with a given label.
EntryOf(table, label) ==
    table[CHOOSE i \in 1..Len(table) : table[i].label = label]

\* The labels of a table, the keys of the dict.
LabelsOf(table) == {table[i].label : i \in 1..Len(table)}

\* The name of a label as a text: the key of the dict as it is written at
\* rag_system.py:213-223 and 239-254.
label_name(label) ==
    CASE label = "Mart_gang" -> <<"M", "a", "r", "t", "_gang">>
      [] label = "HPF_gang" -> <<"H", "P", "F", "_gang">>
      [] label = "_seu_te_in_ri_seu_gang" -> <<"_seu", "_te", "_in", "_ri", "_seu", "_gang">>
      [] label = "_tan_so_gang" -> <<"_tan", "_so", "_gang">>
      [] label = "_hap_geum_gang" -> <<"_hap", "_geum", "_gang">>
      [] label = "_go_gang_do_gang" -> <<"_go", "_gang", "_do", "_gang">>
      [] label = "_gang_pan" -> <<"_gang", "_pan">>
      [] label = "_gang_jae" -> <<"_gang", "_jae">>
      [] label = "_do_geum_gang_pan" -> <<"_do", "_geum", "_gang", "_pan">>
      [] label = "_naeng_yeon_gang_pan" -> <<"_naeng", "_yeon", "_gang", "_pan">>
      [] label = "_yeol_yeon_gang_pan" -> <<"_yeol", "_yeon", "_gang", "_pan">>
      [] label = "DP_gang" -> <<"D", "P", "_gang">>
      [] label = "TRIP_gang" -> <<"T", "R", "I", "P", "_gang">>
      [] label = "CP_gang" -> <<"C", "P", "_gang">>
      [] label = "TWIP_gang" -> <<"T", "W", "I", "P", "_gang">>
      [] label = "FB_gang" -> <<"F", "B", "_gang">>
      [] label = "IF_gang" -> <<"I", "F", "_gang">>
      [] label = "_go_jang_ryeok_gang" -> <<"_go", "_jang", "_ryeok", "_gang">>
      [] label = "_cho_go_jang_ryeok_gang" -> <<"_cho", "_go", "_jang", "_ryeok", "_gang">>

\* The pieces the sample texts are made of: every keyword of both tables
\* as written and in upper case, the name of every label of both tables,
\* and two words that hold no keyword.
AllPieces ==
    LET kws == KeywordsOf(product_group_keywords) \cup KeywordsOf(steel_grade_keywords)
                  \cup {label_name(l) : l \in LabelsOf(product_group_keywords)
                                                \cup LabelsOf(steel_grade_keywords)}
    IN  kws \cup {upper(w) : w \in kws}
            \cup {<<"s", "t", "e", "e", "l">>, <<"_gang">>}

\* The keywords of the HPF-gang and Mart-gang entries of both tables.
CorePieces ==
    LET seqs == { EntryOf(product_group_keywords, "HPF_gang").keywords,
                  EntryOf(product_group_keywords, "Mart_gang").keywords,
                  EntryOf(steel_grade_keywords, "HPF_gang").keywords,
                  EntryOf(steel_grade_keywords, "Mart_gang").keywords }
    IN  {s[k] : s \in seqs, k \in 1..4} \cup
        {EntryOf(steel_grade_keywords, "HPF_gang").keywords[5]}

\* Number of core pieces that may follow the first piece of a sample text.
MaxExtraPieces == 1

RECURSIVE JoinPieces(_)
JoinPieces(ps) ==
    IF Len(ps) = 0 THEN <<>>
    ELSE IF Len(ps) = 1 THEN ps[1]
    ELSE ps[1] \o <<" ">> \o JoinPieces(Tail(ps))

\* The sample texts: empty, or one piece followed by up to MaxExtraPieces
\* core pieces, separated by blanks.
ClsTexts ==
    {<<>>} \cup
    {JoinPieces(<<p>> \o e) :
        p \in AllPieces,
        e \in UNION {[1..n -> CorePieces] : n \in 0..MaxExtraPieces}}

ClsInit ==
    /\ AdjIdle
    /\ SrchIdle
    /\ EngIdle
    /\ ExtIdle
    /\ cls_query_text \in ClsTexts
    /\ cls_product_group = ""
    /\ cls_steel_grade = ""
    /\ cls_returned = {}

\* rag_system.py:209-233
ExtractProductGroup ==
    /\ "product_group" \notin cls_returned
    /\ cls_product_group' = extract_product_group_from_query(cls_query_text)
    /\ cls_returned' = cls_returned \cup {"product_group"}
    /\ UNCHANGED <<cls_query_text, cls_steel_grade>>
    /\ UNCHANGED <<adj_vars, srch_vars, eng_vars, ext_vars>>

\* rag_system.py:235-265
ExtractSteelGrade ==
    /\ "steel_grade" \notin cls_returned
    /\ cls_steel_grade' = extract_steel_grade_from_query(cls_query_text)
    /\ cls_returned' = cls_returned \cup {"steel_grade"}
    /\ UNCHANGED <<cls_query_text, cls_product_group>>
    /\ UNCHANGED <<adj_vars, srch_vars, eng_vars, ext_vars>>

ClsNext ==
    \/ ExtractProductGroup
    \/ ExtractSteelGrade

SpecClassify == ClsInit /\ [][ClsNext]_vars

\* Keyword kw occurs in the text case-insensitively.
OccursIn(kw, text) ==
    \E i \in 0..(Len(text) - Len(kw)) :
        \A j \in 1..Len(kw) : lower_char(text[i + j]) = lower_char(kw[j])

EntryOccurs(entry, text) ==
    \E k \in 1..Len(entry.keywords) : OccursIn(entry.keywords[k], text)

\* result is the label of the first entry of the table, in table order, one
\* of whose keywords occurs in the text, and "" when there is none.
FirstEntryRule(table, text, result) ==
    IF \E i \in 1..Len(table) : EntryOccurs(table[i], text)
    THEN \E i \in 1..Len(table) :
             /\ EntryOccurs(table[i], text)
             /\ \A j \in 1..(i - 1) : ~EntryOccurs(table[j], text)
             /\ result = table[i].label
    ELSE result = ""

\* The text holds a keyword of the HPF-gang entry and one of the Mart-gang
\* entry of the table.
HasBoth(table, text) ==
    /\ EntryOccurs(EntryOf(table, "HPF_gang"), text)
    /\ EntryOccurs(EntryOf(table, "Mart_gang"), text)

BothReturned == cls_returned = {"product_group", "steel_grade"}

\* C9 as stated: a text with both an HPF keyword and a Mart keyword is
\* classified as HPF-gang by both classifiers, and each classifier follows
\* the first-entry rule.
C9_Original ==
    BothReturned =>
        /\ HasBoth(product_group_keywords, cls_query_text)
               => cls_product_group = "HPF_gang"
        /\ HasBoth(steel_grade_keywords, cls_query_text)
               => cls_steel_grade = "HPF_gang"
        /\ FirstEntryRule(product_group_keywords, cls_query_text, cls_product_group)
        /\ FirstEntryRule(steel_grade_keywords, cls_query_text, cls_steel_grade)

\* C9 amended: such a text is classified as HPF-gang by the steel-grade
\* classifier and as Mart-gang by the product-group classifier, whose table
\* lists Mart-gang first; each classifier follows the first-entry rule.
C9_Amended ==
    BothReturned =>
        /\ HasBoth(product_group_keywords, cls_query_text)
               => cls_product_group = "Mart_gang"
        /\ HasBoth(steel_grade_keywords, cls_query_text)
               => cls_steel_grade = "HPF_gang"
        /\ FirstEntryRule(product_group_keywords, cls_query_text, cls_product_group)
        /\ FirstEntryRule(steel_grade_keywords, cls_query_text, cls_steel_grade)

\* Both classifiers have returned for a text holding an HPF and a Mart
\* keyword of either table.
C9_Witness ==
    /\ BothReturned
    /\ HasBoth(product_group_keywords, cls_query_text)
    /\ HasBoth(steel_grade_keywords, cls_query_text)
    /\ cls_product_group = "Mart_gang"
    /\ cls_steel_grade = "HPF_gang"

\* C28: each classifier returns a label when it is applied to that label's
\* own name, for every label of its table, and the steel-grade classifier
\* returns cho-go-jang-ryeok-gang for the text "ultra high tensile": no
\* label is shadowed by an earlier entry one of whose keywords is a
\* substring of it.
C28_LabelNamesRoundTrip ==
    /\ "product_group" \in cls_returned =>
           \A l \in LabelsOf(product_group_keywords) :
               cls_query_text = label_name(l) => cls_product_group = l
    /\ "steel_grade" \in cls_returned =>
           /\ \A l \in LabelsOf(steel_grade_keywords) :
                  cls_query_text = label_name(l) => cls_steel_grade = l
           /\ cls_query_text = EntryOf(steel_grade_keywords,
                                       "_cho_go_jang_ryeok_gang").keywords[2]
                  => cls_steel_grade = "_cho_go_jang_ryeok_gang"

-----------------------------------------------------------------------------
(* One call of search_similar_patents on an engine built from a corpus.    *)

\* The kinds of row of the sample corpora.  cos is the inner product of two
\* unit vectors, in hundredths: it lies in -100..100.
RowKinds ==
    { [cos |-> 80, product_group |-> "HPF_gang", steel_grade |-> "HPF_gang",
       claim_text |-> TermsText(0)],
      [cos |-> 80, product_group |-> "", steel_grade |-> "",
       claim_text |-> TermsText(1)],
      [cos |-> 50, product_group |-> "Mart_gang", steel_grade |-> "Mart_gang",
       claim_text |-> TermsText(1)],
      [cos |-> 50, product_group |-> "", steel_grade |-> "",
       claim_text |-> TermsText(0)],
      [cos |-> -20, product_group |-> "", steel_grade |-> "",
       claim_text |-> TermsText(0)],
      [cos |-> 80, product_group |-> MissingLabel, steel_grade |-> MissingLabel,
       claim_text |-> TermsText(1)] }

\* Largest number of rows of a sample corpus, and largest top_k of a call.
MaxDocs == 3
MaxTopK == 3

\* The sample corpora: 1..MaxDocs rows, row i with patent_id i.
Corpora ==
    UNION {{[i \in 1..n |->
               [patent_id |-> i,
                cos |-> kinds[i].cos,
                product_group |-> kinds[i].product_group,
                steel_grade |-> kinds[i].steel_grade,
                claim_text |-> kinds[i].claim_text,
                country_code |-> "KR",
                applicant |-> <<"P", "O", "S", "C", "O">>,
                application_date |-> <<"2", "0", "2", "1", "-", "0", "3">>]] :
            kinds \in [1..n -> RowKinds]} : n \in 1..MaxDocs}

\* The sample queries: a Mart-gang claim naming one technical term, an
\* HPF-gang claim, and a text no classifier recognises.
SrchQueries ==
    { <<"M", "a", "r", "t", "_gang", " ">> \o TermsText(1),
      <<"H", "P", "F", "_gang">>,
      <<"s", "t", "e", "e", "l">> }

\* The engine after initialize() on the corpus (lines 29-53), and a call.
SrchInit ==
    /\ AdjIdle
    /\ ClsIdle
    /\ EngIdle
    /\ ExtIdle
    /\ patent_data \in Corpora
    /\ index = build_faiss_index(generate_embeddings(patent_data))
    /\ srch_query_text \in SrchQueries
    /\ top_k \in 1..MaxTopK
    /\ raw = <<>>
    /\ results = <<>>
    /\ srch_pc = "call"

\* rag_system.py:144-207
SearchSimilarPatents ==
    /\ srch_pc = "call"
    /\ \E answer \in IndexSearch(index, raw_request(top_k)) :
          /\ raw' = answer
          /\ results' = search_similar_patents(patent_data, answer,
                                               srch_query_text, top_k)
    /\ srch_pc' = "returned"
    /\ UNCHANGED <<patent_data, index, srch_query_text, top_k>>
    /\ UNCHANGED <<adj_vars, cls_vars, eng_vars, ext_vars>>

SrchNext == SearchSimilarPatents

SpecSearch == SrchInit /\ [][SrchNext]_vars

\* C2: search_similar_patents(query_text, top_k) returns at most top_k
\* candidates ordered by non-increasing similarity_score, and two
\* candidates of equal similarity_score appear in the order in which the
\* vector index returned them.
C2_SortedStableTopK ==
    srch_pc = "returned" =>
        /\ Len(results) <= top_k
        /\ \A i, j \in 1..Len(results) :
               i < j =>
                   /\ results[i].similarity_score >= results[j].similarity_score
                   /\ results[i].similarity_score = results[j].similarity_score
                          => results[i].slot < results[j].slot

\* A call returned top_k candidates, two of them with equal scores, and the
\* adjustment moved a candidate ahead of one the index ranked higher.
C2_Witness ==
    /\ srch_pc = "returned"
    /\ Len(results) = top_k
    /\ \E i, j \in 1..Len(results) :
           /\ i < j
           /\ results[i].similarity_score = results[j].similarity_score
           /\ results[i].idx # -1 /\ results[j].idx # -1
    /\ \E i, j \in 1..Len(results) :
           i < j /\ results[i].slot > results[j].slot

\* C10: for a corpus of n documents and any top_k >= n, the search returns
\* every corpus document exactly once: no document is missing, none appears
\* twice, and index slots beyond the corpus size produce no result entry.
C10_EveryDocumentOnce ==
    (srch_pc = "returned" /\ top_k >= Len(patent_data)) =>
        /\ \A d \in 1..Len(patent_data) :
               Cardinality({i \in 1..Len(results) :
                               results[i].patent_id = patent_data[d].patent_id}) = 1
        /\ \A i \in 1..Len(results) : results[i].idx # -1

\* The adjusted score the query of the call gives to a row with raw
\* similarity sim.
AdjustedScore(row, sim) ==
    calculate_enhanced_similarity(
        sim,
        extract_product_group_from_query(srch_query_text),
        str_of_label(row.product_group),
        extract_steel_grade_from_query(srch_query_text),
        str_of_label(row.steel_grade),
        srch_query_text, row.claim_text)

\* The 0-based row indices the raw answer names (its window).
WindowIdx == {raw[s].idx : s \in 1..Len(raw)} \ {-1}

\* C11: search_similar_patents requests exactly 2*top_k raw candidates from
\* the index, and its result is exactly the top_k highest adjusted scores
\* among those raw candidates (each raw slot at most once): no slot left out
\* scores higher than a returned one, and a document outside the raw window
\* is never returned.
C11_TopKOfRawWindow ==
    srch_pc = "returned" =>
        /\ Len(raw) = 2 * top_k
        /\ Len(results) = top_k
        /\ \A i \in 1..Len(results) :
               /\ results[i].slot + 1 \in 1..Len(raw)
               /\ results[i].idx = raw[results[i].slot + 1].idx
               /\ results[i].patent_id \in
                      {patent_data[j + 1].patent_id : j \in WindowIdx}
               /\ results[i].similarity_score =
                      AdjustedScore(iloc(patent_data, results[i].idx),
                                    raw[results[i].slot + 1].similarity)
        /\ \A i, j \in 1..Len(results) :
               i # j => results[i].slot # results[j].slot
        /\ \A s \in 1..Len(raw) :
               (\A i \in 1..Len(results) : results[i].slot # s - 1) =>
                   \A i \in 1..Len(results) :
                       AdjustedScore(iloc(patent_data, raw[s].idx), raw[s].similarity)
                           <= results[i].similarity_score

\* A call returned while a document outside the raw window would have
\* scored higher, after adjustment, than a returned candidate.
C11_Witness ==
    /\ srch_pc = "returned"
    /\ \E j \in (0..(Len(patent_data) - 1)) \ WindowIdx :
           \E i \in 1..Len(results) :
               /\ results[i].idx # -1
               /\ AdjustedScore(patent_data[j + 1], patent_data[j + 1].cos)
                      > results[i].similarity_score

\* C23: for every candidate search returns for a vector the index
\* reported, base_similarity and similarity_score both lie in [0,100],
\* whatever inner product the index reported and whatever the labels.
C23_ScoresInRange ==
    srch_pc = "returned" =>
        \A i \in 1..Len(results) :
            results[i].idx # -1 =>
                /\ 0 <= results[i].base_similarity
                /\ results[i].base_similarity <= 100 * Unit
                /\ 0 <= results[i].similarity_score
                /\ results[i].similarity_score <= 100 * Unit

\* C25: a candidate whose product-group and steel-grade fields are absent
\* or blank in its corpus row gets neither the product-group factor nor the
\* steel-grade factor nor the severe penalty, whatever the query classifies
\* to: its similarity_score is min(base_similarity * (1 + technical bonus),
\* 100).
C25_NoLabelsNoFactor ==
    srch_pc = "returned" =>
        \A i \in 1..Len(results) :
            LET row == iloc(patent_data, results[i].idx)
                bonus == calculate_technical_content_bonus(srch_query_text,
                                                           row.claim_text)
            IN  (/\ results[i].idx # -1
                 /\ results[i].base_similarity >= 0
                 /\ row.product_group \in {"", MissingLabel}
                 /\ row.steel_grade \in {"", MissingLabel})
                    => results[i].similarity_score =
                           Min((results[i].base_similarity \div 100) * (100 + bonus),
                               100 * Unit)

-----------------------------------------------------------------------------
(* One call of enhanced_similarity_search on an engine built from a        *)
(* corpus.                                                                 *)

\* The kinds of row of the sample corpora: no classifier label, no
\* technical term, so that the adjusted score is the raw one.
FltRowKinds ==
    { [cos |-> 95, country_code |-> "KR",
       applicant |-> <<"P", "O", "S", "C", "O">>,
       application_date |-> <<"2", "0", "2", "1", "-", "0", "3", "-", "1", "5">>],
      [cos |-> 80, country_code |-> "US",
       applicant |-> <<"N", "S", "C">>,
       application_date |-> <<"2", "0", "1", "9", "/", "0", "5", "/", "0", "1">>],
      [cos |-> 70, country_code |-> "KR",
       applicant |-> <<"P", "o", "s", "c", "o", " ", "S", "t", "e", "e", "l">>,
       application_date |-> <<"2", "0", "1", "8", "0", "1", "0", "1">>] }

\* Largest number of rows of a sample corpus, and largest top_k of a call.
MaxFltDocs == 3
MaxFltTopK == 2

FltCorpora ==
    UNION {{[i \in 1..n |->
               [patent_id |-> i,
                cos |-> kinds[i].cos,
                product_group |-> "",
                steel_grade |-> "",
                claim_text |-> TermsText(0),
                country_code |-> kinds[i].country_code,
                applicant |-> kinds[i].applicant,
                application_date |-> kinds[i].application_date]] :
            kinds \in [1..n -> FltRowKinds]} : n \in 1..MaxFltDocs}

\* The sample filters arguments.
FltFilters ==
    { NoFilters,
      EmptyDict,
      [EmptyDict EXCEPT !.min_similarity = Some(90)],
      [EmptyDict EXCEPT !.min_similarity = Some(80)],
      [EmptyDict EXCEPT !.country = Some(<<"US", "JP">>)],
      [EmptyDict EXCEPT !.country = Some(<<>>)],
      [EmptyDict EXCEPT !.year_range = Some(<<2019, 2021>>)],
      [EmptyDict EXCEPT !.applicant = Some(<<<<"x">>, <<"p", "o", "s", "c", "o">>>>)],
      [EmptyDict EXCEPT !.country = Some(<<"KR">>),
                        !.year_range = Some(<<2018, 2020>>),
                        !.applicant = Some(<<<<"S", "T", "E", "E", "L">>>>),
                        !.min_similarity = Some(70)],
      [EmptyDict EXCEPT !.unknown = {"ipc"}],
      [EmptyDict EXCEPT !.unknown = {"ipc", "limit"}],
      [EmptyDict EXCEPT !.min_similarity = Some(80), !.unknown = {"ipc"}],
      [EmptyDict EXCEPT !.country = Some(<<"KR">>), !.unknown = {"country_code"}] }

\* The engine after initialize() on the corpus, and a call.
FltInit ==
    /\ AdjIdle
    /\ ClsIdle
    /\ EngIdle
    /\ ExtIdleExcept("flt")
    /\ patent_data \in FltCorpora
    /\ index = build_faiss_index(generate_embeddings(patent_data))
    /\ srch_query_text = <<"s", "t", "e", "e", "l">>
    /\ top_k \in 1..MaxFltTopK
    /\ filters \in FltFilters
    /\ raw = <<>>
    /\ ranked = <<>>
    /\ filtered_results = None
    /\ results = <<>>
    /\ srch_pc = "call"

\* rag_system.py:597-636
EnhancedSimilaritySearch ==
    /\ srch_pc = "call"
    /\ \E answer \in IndexSearch(index, raw_request(top_k * 2)) :
          LET found == search_similar_patents(patent_data, answer,
                                              srch_query_text, top_k * 2)
          IN  /\ raw' = answer
              /\ ranked' = found
              /\ filtered_results' =
                     IF is_truthy(filters)
                     THEN Some(filter_results(found, filters, Len(found)))
                     ELSE None
              /\ results' = after_search(found, filters, top_k)
    /\ srch_pc' = "returned"
    /\ UNCHANGED <<patent_data, index, srch_query_text, top_k, filters>>
    /\ UNCHANGED <<adj_vars, cls_vars, eng_vars>>
    /\ ExtFrameExcept("flt")

FltNext == EnhancedSimilaritySearch

SpecFilter == FltInit /\ [][FltNext]_vars

\* The claim's reading of the filter: every predicate present holds.
Satisfies(r, f) ==
    /\ f.country # None => r.country_code \in {f.country[1][i] : i \in DOMAIN f.country[1]}
    /\ f.year_range # None =>
           r.application_year \in (f.year_range[1][1])..(f.year_range[1][2])
    /\ f.applicant # None =>
           \E a \in {f.applicant[1][i] : i \in DOMAIN f.applicant[1]} :
               \E k \in 0..(Len(r.applicant) - Len(a)) :
                   \A j \in 1..Len(a) :
                       lower_char(r.applicant[k + j]) = lower_char(a[j])
    /\ f.min_similarity # None => r.similarity_score >= f.min_similarity[1] * Unit

\* The positions of the ranked list whose result satisfies the filter (all
\* of them without a filter).
SatisfyingPositions ==
    {i \in 1..Len(ranked) : is_truthy(filters) => Satisfies(ranked[i], filters)}

\* The i-th smallest element of a finite set of numbers.
NthOf(S, i) == CHOOSE x \in S : Cardinality({y \in S : y < x}) = i - 1

\* C12: enhanced_similarity_search requests 2*top_k ranked candidates from
\* search and returns the first top_k of them, in ranked order, that satisfy
\* the filter; the result has at most top_k items.
C12_FirstTopKOfRanked ==
    srch_pc = "returned" =>
        /\ Len(raw) = 2 * (2 * top_k)
        /\ Len(ranked) <= 2 * top_k
        /\ Len(results) = Min(top_k, Cardinality(SatisfyingPositions))
        /\ \A i \in 1..Len(results) :
               results[i] = ranked[NthOf(SatisfyingPositions, i)]

\* A filtered call returned fewer than top_k items although a row that the
\* search did not rank within 2*top_k satisfies the filter.
C12_Witness ==
    /\ srch_pc = "returned"
    /\ is_truthy(filters)
    /\ Len(results) < top_k
    /\ \E d \in 1..Len(patent_data) :
           /\ \A i \in 1..Len(ranked) : ranked[i].patent_id # d
           /\ Satisfies([country_code |-> patent_data[d].country_code,
                         applicant |-> patent_data[d].applicant,
                         application_year |-> extract_year(patent_data[d].application_date),
                         similarity_score |->
                             AdjustedScore(patent_data[d], patent_data[d].cos)],
                        filters)

\* C13: the filter keeps a ranked result if and only if it satisfies every
\* predicate present in the filter, and the kept results retain their
\* ranked order.
C13_KeptIffSatisfies ==
    (srch_pc = "returned" /\ filtered_results # None) =>
        LET kept == filtered_results[1]
        IN  /\ Len(kept) = Cardinality(SatisfyingPositions)
            /\ \A i \in 1..Len(kept) :
                   kept[i] = ranked[NthOf(SatisfyingPositions, i)]

\* The ranked scores begin 95, 80, 70, the filter is min_similarity = 90,
\* and only the item scored 95 was kept.
C13_Witness ==
    /\ srch_pc = "returned"
    /\ filters = [EmptyDict EXCEPT !.min_similarity = Some(90)]
    /\ Len(ranked) >= 3
    /\ ranked[1].similarity_score = 95 * Unit
    /\ ranked[2].similarity_score = 80 * Unit
    /\ ranked[3].similarity_score = 70 * Unit
    /\ filtered_results = Some(<<ranked[1]>>)
    /\ results = <<ranked[1]>>

\* The filters argument without its unknown keys.
KnownPart(f) == [f EXCEPT !.unknown = {}]

\* The positions of the ranked list whose result passes the known keys of
\* the filter (all of them when no known key is present).
KnownKeyPositions ==
    {i \in 1..Len(ranked) : Satisfies(ranked[i], KnownPart(filters))}

\* C21: keys of the filter other than country, year_range, applicant and
\* min_similarity are ignored: the call returns, its list is the one the
\* filter without the unknown keys selects, and a filter of unknown keys
\* only returns the first top_k ranked candidates.
C21_UnknownKeysIgnored ==
    (srch_pc = "returned" /\ ~filters.is_none /\ filters.unknown # {}) =>
        /\ Len(results) = Min(top_k, Cardinality(KnownKeyPositions))
        /\ \A i \in 1..Len(results) :
               results[i] = ranked[NthOf(KnownKeyPositions, i)]
        /\ KnownPart(filters) = EmptyDict => results = head(ranked, top_k)

\* A filter of unknown keys only went through the filter loop and the call
\* returned the two best of three ranked candidates.
C21_Witness ==
    /\ srch_pc = "returned"
    /\ filters.unknown # {}
    /\ KnownPart(filters) = EmptyDict
    /\ filtered_results # None
    /\ Len(ranked) >= 3
    /\ top_k = 2
    /\ results = <<ranked[1], ranked[2]>>

-----------------------------------------------------------------------------
(* enhanced_similarity_search without a filter, then                       *)
(* search_similar_patents with the same query and top_k, on one engine.    *)

\* Largest top_k of the two calls.
MaxEqvTopK == 2

\* The engine after initialize() on a corpus with labelled rows, and the
\* arguments of the two calls: filters is None or the empty dict.
EqvInit ==
    /\ AdjIdle
    /\ ClsIdle
    /\ EngIdle
    /\ ExtIdleExcept("flt")
    /\ patent_data \in Corpora
    /\ index = build_faiss_index(generate_embeddings(patent_data))
    /\ srch_query_text \in SrchQueries
    /\ top_k \in 1..MaxEqvTopK
    /\ filters \in {NoFilters, EmptyDict}
    /\ raw = <<>>
    /\ ranked = <<>>
    /\ filtered_results = None
    /\ results = <<>>
    /\ srch_pc = "call"

\* rag_system.py:144-207, called with (query_text, top_k) after the
\* enhanced call has returned.
PlainSearchAfterEnhanced ==
    /\ srch_pc = "returned"
    /\ \E answer \in IndexSearch(index, raw_request(top_k)) :
          /\ plain_raw' = answer
          /\ plain_results' = search_similar_patents(patent_data, answer,
                                                     srch_query_text, top_k)
    /\ srch_pc' = "compared"
    /\ UNCHANGED <<patent_data, index, srch_query_text, top_k, raw, results>>
    /\ UNCHANGED <<adj_vars, cls_vars, eng_vars>>
    /\ ExtFrameExcept("eqv")

EqvNext ==
    \/ EnhancedSimilaritySearch
    \/ PlainSearchAfterEnhanced

SpecEquivalent == EqvInit /\ [][EqvNext]_vars

\* The index gave the plain call the candidates it gave the enhanced call,
\* in the same order, as far as the plain call asked.
SameRawPrefix ==
    \A s \in 1..Len(plain_raw) : plain_raw[s] = raw[s]

\* C29: with filters None or the empty dict, enhanced_similarity_search(q,
\* filters, top_k) returns the same ordered list as search_similar_patents(q,
\* top_k) on the same engine, the index ordering equal candidates alike in
\* both calls.
C29_NoFilterSameAsPlain ==
    (srch_pc = "compared" /\ SameRawPrefix) => results = plain_results

-----------------------------------------------------------------------------
(* Concurrent queries on one built engine: each call of                    *)
(* search_similar_patents or enhanced_similarity_search runs statement by  *)
(* statement, interleaved with the other calls.                            *)

\* The calls in flight.
Queries == {1, 2}

\* Largest number of rows of the corpus, and largest top_k of a call.
MaxCqDocs == 2
MaxCqTopK == 1

\* The sample filters of an enhanced call.
CqFilters == {NoFilters, [EmptyDict EXCEPT !.min_similarity = Some(80)]}

\* The arguments of a call: of search_similar_patents(query_text, top_k) or
\* of enhanced_similarity_search(query_text, filters, top_k).
CqCalls ==
    [op : {"search"}, query_text : {<<"s", "t", "e", "e", "l">>},
     top_k : 1..MaxCqTopK, filters : {NoFilters}]
    \cup
    [op : {"enhanced"}, query_text : {<<"s", "t", "e", "e", "l">>},
     top_k : 1..MaxCqTopK, filters : CqFilters]

\* The top_k that search_similar_patents is called with: the argument of a
\* direct call, top_k * 2 inside enhanced_similarity_search (line 602).
search_top_k(call) == IF call.op = "enhanced" THEN call.top_k * 2 ELSE call.top_k

\* Variant of results_frame: results is one attribute of the engine, shared
\* by all calls.
results_on_engine(c) == 1

\* Where the variable results of call c lives: "results = []" (line 159)
\* binds a local of the call's own frame.
results_frame(c) == c

CqInit ==
    /\ AdjIdle
    /\ ClsIdle
    /\ EngIdle
    /\ ExtIdleExcept("cq")
    /\ patent_data \in {c \in FltCorpora : Len(c) <= MaxCqDocs}
    /\ index = build_faiss_index(generate_embeddings(patent_data))
    /\ srch_query_text = <<>>
    /\ top_k = 0
    /\ raw = <<>>
    /\ results = <<>>
    /\ srch_pc = "idle"
    /\ \E args \in [Queries -> CqCalls] :
          calls = [c \in Queries |->
                      [op |-> args[c].op, query_text |-> args[c].query_text,
                       top_k |-> args[c].top_k, filters |-> args[c].filters,
                       pc |-> "call", raw |-> <<>>,
                       query_product_group |-> "", query_steel_grade |-> "",
                       i |-> 0, ret |-> None]]
    /\ local_results = [c \in Queries |-> <<>>]

\* What no statement of a query assigns: the engine, and the variables of
\* the other operations.
CqFrame ==
    /\ UNCHANGED <<patent_data, index, srch_query_text, top_k, raw, results, srch_pc>>
    /\ UNCHANGED <<adj_vars, cls_vars, eng_vars>>
    /\ ExtFrameExcept("cq")

\* rag_system.py:149-159: the index is searched, the query is classified
\* and results starts empty
CqIndexSearch(c) ==
    /\ calls[c].pc = "call"
    /\ \E answer \in IndexSearch(index, raw_request(search_top_k(calls[c]))) :
          calls' = [calls EXCEPT
                       ![c].raw = answer,
                       ![c].query_product_group =
                           extract_product_group_from_query(calls[c].query_text),
                       ![c].query_steel_grade =
                           extract_steel_grade_from_query(calls[c].query_text),
                       ![c].i = 0,
                       ![c].pc = "loop"]
    /\ local_results' = [local_results EXCEPT ![results_frame(c)] = <<>>]
    /\ CqFrame

\* rag_system.py:160-200: one iteration of the loop over the raw slots
CqLoopStep(c) ==
    /\ calls[c].pc = "loop"
    /\ calls[c].i < Len(calls[c].raw)
    /\ LET i == calls[c].i + 1
           result == result_of(patent_data, calls[c].raw, i,
                               calls[c].query_product_group,
                               calls[c].query_steel_grade, calls[c].query_text)
       IN  /\ calls' = [calls EXCEPT ![c].i = i]
           /\ local_results' =
                  IF slot_is_kept(patent_data, calls[c].raw[i].idx)
                  THEN [local_results EXCEPT ![results_frame(c)] = Append(@, result)]
                  ELSE local_results
    /\ CqFrame

\* rag_system.py:203-207: sort, truncate, return
CqSortAndReturn(c) ==
    /\ calls[c].pc = "loop"
    /\ calls[c].i = Len(calls[c].raw)
    /\ LET sorted == head(sort_desc(local_results[results_frame(c)]),
                          search_top_k(calls[c]))
       IN  /\ local_results' = [local_results EXCEPT ![results_frame(c)] = sorted]
           /\ calls' = IF calls[c].op = "search"
                       THEN [calls EXCEPT ![c].pc = "returned", ![c].ret = Some(sorted)]
                       ELSE [calls EXCEPT ![c].pc = "filter"]
    /\ CqFrame

\* rag_system.py:604-636, on the list search_similar_patents returned
CqFilterAndReturn(c) ==
    /\ calls[c].pc = "filter"
    /\ calls' = [calls EXCEPT
                    ![c].pc = "returned",
                    ![c].ret = Some(after_search(local_results[results_frame(c)],
                                                 calls[c].filters, calls[c].top_k))]
    /\ UNCHANGED local_results
    /\ CqFrame

CqNext ==
    \E c \in Queries :
        \/ CqIndexSearch(c)
        \/ CqLoopStep(c)
        \/ CqSortAndReturn(c)
        \/ CqFilterAndReturn(c)

SpecConcurrent == CqInit /\ [][CqNext]_vars

\* What call c can return when it runs alone on the engine.
AloneResults(c) ==
    {after_search(search_similar_patents(patent_data, answer, calls[c].query_text,
                                         search_top_k(calls[c])),
                  IF calls[c].op = "enhanced" THEN calls[c].filters ELSE NoFilters,
                  calls[c].top_k) :
        answer \in IndexSearch(index, raw_request(search_top_k(calls[c])))}

\* C22: queries are read-only: no step of search_similar_patents or of
\* enhanced_similarity_search changes the records or the index of the
\* engine, and under every interleaving with another query a call returns
\* what it can return when it runs alone.
C22_QueriesReadOnly ==
    /\ [](\A c \in DOMAIN calls :
              calls[c].pc = "returned" =>
                  /\ calls[c].ret # None
                  /\ calls[c].ret[1] \in AloneResults(c))
    /\ [][patent_data' = patent_data /\ index' = index]_vars

\* A search is in its loop with one result collected, while an enhanced
\* search that started after it has returned a different, filtered list.
C22_Witness ==
    /\ DOMAIN calls = Queries
    /\ calls[1].pc = "loop"
    /\ Len(local_results[1]) = 1
    /\ calls[2].pc = "returned"
    /\ calls[1].op = "search"
    /\ calls[2].op = "enhanced"
    /\ calls[2].filters # NoFilters
    /\ Len(patent_data) = 2
    /\ Len(calls[2].ret[1]) = 1

-----------------------------------------------------------------------------
(* One call of _extract_components_from_claim.                             *)

\* The pieces of the sample claim texts: "C: 0.1%", "Mn:", a blank, a comma,
\* a newline, the filler "reul ham-yu-ha-go", "carbon(C)", "martensite 5%"
\* and the tensile strength "in-jang gang-do 9MPa".
ClaimPieces ==
    { <<"C", ":", " ", "0", ".", "1", "%">>,
      <<"M", "n", ":">>,
      <<" ">>,
      <<",">>,
      <<"nl">>,
      <<"_reul", " ", "_ham", "_yu", "_ha", "_go">>,
      <<"c", "a", "r", "b", "o", "n", "(", "C", ")">>,
      <<"m", "a", "r", "t", "e", "n", "s", "i", "t", "e", " ", "5", "%">>,
      <<"_in", "_jang", " ", "_gang", "_do", " ", "9", "M", "P", "a">> }

\* Largest number of pieces of a sample claim text.
MaxClaimPieces == 3

\* The text made of the pieces ps, in order.
RECURSIVE JoinClaimPieces(_)
JoinClaimPieces(ps) ==
    IF Len(ps) = 0 THEN <<>> ELSE Head(ps) \o JoinClaimPieces(Tail(ps))

CmpInit ==
    /\ AdjIdle
    /\ ClsIdle
    /\ SrchIdle
    /\ EngIdle
    /\ ExtIdleExcept("cmp")
    /\ \E n \in 0..MaxClaimPieces :
          \E ps \in [1..n -> ClaimPieces] : cmp_claim_text = JoinClaimPieces(ps)
    /\ components = <<>>
    /\ cmp_pc = "call"

\* rag_system.py:496-560
ExtractComponents ==
    /\ cmp_pc = "call"
    /\ components' = extract_components_from_claim(cmp_claim_text)
    /\ cmp_pc' = "returned"
    /\ UNCHANGED cmp_claim_text
    /\ UNCHANGED <<adj_vars, cls_vars, srch_vars, eng_vars>>
    /\ ExtFrameExcept("cmp")

CmpNext == ExtractComponents

SpecExtract == CmpInit /\ [][CmpNext]_vars

\* The patterns in the order of the three families, and the values of the
\* matches of pattern k in the text of the call, in text order: all of
\* them, or only the ones that are not empty.
AllPatterns == element_patterns \o microstructure_patterns \o mechanical_patterns

MatchValues(k, drop_empty) ==
    LET matches == findall(AllPatterns[k].p, cmp_claim_text, 1)
        values == [i \in 1..Len(matches) |->
                      IF k <= Len(element_patterns) THEN element_value(matches[i])
                                                    ELSE strip(matches[i])]
        not_empty(v) == Len(v) > 0
    IN  IF drop_empty THEN SelectSeq(values, not_empty) ELSE values

\* The number of values of the patterns before pattern k.
RECURSIVE ValuesBefore(_, _)
ValuesBefore(k, drop_empty) ==
    IF k = 1 THEN 0
    ELSE ValuesBefore(k - 1, drop_empty) + Len(MatchValues(k - 1, drop_empty))

\* The returned list holds, pattern after pattern, one entry
\* "<label>: <value>" per value, and nothing else.
OneEntryPerValue(drop_empty) ==
    /\ Len(components) = ValuesBefore(Len(AllPatterns) + 1, drop_empty)
    /\ \A k \in 1..Len(AllPatterns) :
           \A i \in 1..Len(MatchValues(k, drop_empty)) :
               components[ValuesBefore(k, drop_empty) + i] =
                   AllPatterns[k].label \o <<":", " ">>
                       \o MatchValues(k, drop_empty)[i]

\* C24 as stated: extract returns one entry "<label>: <value>" per regex
\* match, the element entries first, then the microstructure entries, then
\* the mechanical-property entries, in text order within a pattern and with
\* repeated matches kept; a text without a match yields the empty list.
C24_Original == cmp_pc = "returned" => OneEntryPerValue(FALSE)

\* C24 amended: as stated, but an element match whose value is empty after
\* trimming and removal of the filler words yields no entry.
C24_Amended == cmp_pc = "returned" => OneEntryPerValue(TRUE)

\* A call returned a microstructure entry and dropped an element match
\* whose value was empty.
C24_Witness ==
    /\ cmp_pc = "returned"
    /\ Len(components) = 1
    /\ components[1][1] = "_ma"
    /\ \E k \in 1..Len(element_patterns) :
           Len(MatchValues(k, TRUE)) < Len(MatchValues(k, FALSE))

-----------------------------------------------------------------------------
(* The application of main.py: its start-up, the search endpoint, and a    *)
(* search called directly on the engine of the module.                     *)

\* The sample query texts.
ApiTexts ==
    { <<>>,
      <<" ">>,
      <<"s", "t", "e", "e", "l">>,
      <<"H", "P", "F", "_gang">> }

\* Largest top_k of a sample request.
MaxApiTopK == 2

\* Number of sample patents of a summarize request.
MaxSumPatents == 2

\* The sample request bodies: the key claim_text may be absent.
ApiRequests ==
    [via : {"endpoint"},
     claim_text : {None} \cup {Some(t) : t \in ApiTexts},
     filters : FltFilters,
     top_k : 1..MaxApiTopK]

\* request.get("claim_text", "") (main.py:164)
get_claim_text(rq) == IF rq.claim_text = None THEN <<>> ELSE rq.claim_text[1]

\* How far a call of search_similar_patents gets on an engine whose fields
\* model and index are set or still None (rag_system.py:149, 153): a None
\* field raises AttributeError at its first use; the text is not examined.
search_outcome(engine, q_text) ==
    IF ~engine.model
    THEN [kind |-> "raise", error |-> "AttributeError", line |-> 149]
    ELSE IF ~engine.index
    THEN [kind |-> "raise", error |-> "AttributeError", line |-> 153]
    ELSE [kind |-> "return", error |-> "none", line |-> 207]

\* raise HTTPException(status_code, detail) that reaches the client.  The
\* field raised of an answer is the status of the first HTTPException the
\* handler raised, 0 when it raised none.
http_exception(status_code, detail) ==
    [status |-> status_code, detail |-> detail, raised |-> status_code]

\* A normal return of a handler.
ok_response(body) == [status |-> 200, detail |-> body, raised |-> 0]

\* "except Exception as e: raise HTTPException(status_code=500,
\* detail=str(e))" (main.py:157-158, 190-192) around an exception e raised
\* in the try block: HTTPException is an Exception, so it is caught too.
except_exception(e) == [status |-> 500, detail |-> "str(e)", raised |-> e.raised]

\* main.py:161-192, the answer to one request
handle_search(app_engine, rq) ==
    IF Len(get_claim_text(rq)) = 0                          \* line 168
    THEN http_exception(400, "Claim text is required")
    ELSE IF app_engine = "None"                             \* lines 172-173
         THEN except_exception(http_exception(503, "RAG system not available"))
         ELSE ok_response("similar_patents")

\* The sample uploads: whether the file name ends in ".pdf", whether
\* extract_text_from_pdf returns a text, and whether extract_claim_1 finds
\* a claim in it.
ApiUploads ==
    [via : {"upload"}, pdf_name : BOOLEAN, text_extracted : BOOLEAN,
     claim_found : BOOLEAN]

\* main.py:143-158, the answer to one upload
handle_upload(rq) ==
    IF ~rq.pdf_name                                         \* lines 146-147
    THEN http_exception(400, "File must be a PDF")
    ELSE IF ~rq.text_extracted                              \* lines 151, 111-112
         THEN except_exception(http_exception(400, "Error extracting text from PDF"))
         ELSE IF ~rq.claim_found                            \* lines 154-155
              THEN except_exception(
                       http_exception(400, "Could not extract Claim 1 from PDF"))
              ELSE ok_response("claim_text")

ApiInit ==
    /\ AdjIdle
    /\ ClsIdle
    /\ SrchIdle
    /\ EngIdle
    /\ ExtIdleExcept("api")
    /\ app_rag_system = "None"                              \* main.py:36
    /\ module_engine = None                                 \* rag_system.py:680
    /\ corpus_ok \in BOOLEAN
    /\ request = None
    /\ response = None
    /\ api_pc = "startup"

ApiFrame ==
    /\ UNCHANGED <<adj_vars, cls_vars, srch_vars, eng_vars>>
    /\ ExtFrameExcept("api")

\* main.py:38-50 with get_rag_system (rag_system.py:682-688): the engine is
\* bound to the module global, then initialized; when initialize() raises,
\* the application keeps None.
StartupEvent ==
    /\ api_pc = "startup"
    /\ module_engine' = Some([model |-> TRUE, index |-> corpus_ok])
    /\ app_rag_system' = IF corpus_ok THEN "engine" ELSE "None"
    /\ api_pc' = "serving"
    /\ UNCHANGED <<corpus_ok, request, response>>
    /\ ApiFrame

\* main.py:161-192
SearchEndpoint ==
    /\ api_pc = "serving"
    /\ \E rq \in ApiRequests :
          /\ request' = Some(rq)
          /\ response' = Some(handle_search(app_rag_system, rq))
    /\ UNCHANGED <<app_rag_system, module_engine, corpus_ok, api_pc>>
    /\ ApiFrame

\* main.py:143-158
UploadPdfEndpoint ==
    /\ api_pc = "serving"
    /\ \E rq \in ApiUploads :
          /\ request' = Some(rq)
          /\ response' = Some(handle_upload(rq))
    /\ UNCHANGED <<app_rag_system, module_engine, corpus_ok, api_pc>>
    /\ ApiFrame

\* rag_system.py:144-207 called on the engine of the module
SearchOnEngine ==
    /\ api_pc = "serving"
    /\ module_engine # None
    /\ \E t \in ApiTexts, k \in 1..MaxApiTopK :
          /\ request' = Some([via |-> "engine", claim_text |-> Some(t),
                              filters |-> NoFilters, top_k |-> k])
          /\ response' = Some(search_outcome(module_engine[1], t))
    /\ UNCHANGED <<app_rag_system, module_engine, corpus_ok, api_pc>>
    /\ ApiFrame

ApiNext ==
    \/ StartupEvent
    \/ SearchEndpoint
    \/ UploadPdfEndpoint
    \/ SearchOnEngine

SpecApi == ApiInit /\ [][ApiNext]_vars

\* C14: a search with empty query text fails with the dedicated empty-query
\* error, and a search issued while the corpus is not loaded fails with the
\* dedicated not-ready error (503 at the endpoint); no result list is
\* returned and no other kind of failure is raised in these cases.
C14_DedicatedErrors ==
    (api_pc = "serving" /\ request # None /\ request[1].via # "upload") =>
        LET rq == request[1]
            rs == response[1]
            empty == Len(get_claim_text(rq)) = 0
        IN  IF rq.via = "endpoint"
            THEN /\ empty => rs.status = 400
                 /\ (~empty /\ app_rag_system = "None") => rs.status = 503
            ELSE /\ empty => (rs.kind = "raise" /\ rs.error = "EmptyQuery")
                 /\ (~empty /\ ~module_engine[1].index) =>
                        (rs.kind = "raise" /\ rs.error = "IndexNotReady")

\* C26: in the search endpoint and in upload-pdf of main.py the client
\* receives the status the handler chose: 400 for an empty claim text, 503
\* for an unavailable engine, 400 when no Claim 1 is found; an
\* HTTPException raised inside the try block is not turned into a 500.
C26_ChosenStatusReachesClient ==
    (api_pc = "serving" /\ request # None
        /\ request[1].via \in {"endpoint", "upload"}) =>
        LET rq == request[1]
            rs == response[1]
        IN  /\ rs.raised # 0 => rs.status = rs.raised
            /\ rq.via = "endpoint" =>
                   /\ Len(get_claim_text(rq)) = 0 => rs.status = 400
                   /\ (Len(get_claim_text(rq)) > 0 /\ app_rag_system = "None")
                          => rs.status = 503
            /\ (rq.via = "upload" /\ rq.pdf_name /\ rq.text_extracted
                    /\ ~rq.claim_found) => rs.status = 400

-----------------------------------------------------------------------------
(* One call of _extract_year.                                              *)

\* The characters of the sample date values: two digits, the two
\* separators, a blank and a letter.
DateChars == {"2", "0", "-", "/", " ", "x"}

\* Largest length of an enumerated date value.
MaxDateLen == 5

\* The sample date values: every text over DateChars up to MaxDateLen, the
\* documented examples, and a missing cell.
DateValues ==
    UNION {[1..n -> DateChars] : n \in 0..MaxDateLen}
    \cup { <<"2", "0", "2", "1", "-", "0", "3", "-", "1", "5">>,
           <<"2", "0", "2", "1", "/", "0", "3", "/", "1", "5">>,
           <<"2", "0", "2", "1", "0", "3", "1", "5">>,
           NaN }

YrInit ==
    /\ AdjIdle
    /\ ClsIdle
    /\ SrchIdle
    /\ EngIdle
    /\ ExtIdleExcept("yr")
    /\ date_str \in DateValues
    /\ year = 0
    /\ yr_pc = "call"

\* rag_system.py:477-494
ExtractYear ==
    /\ yr_pc = "call"
    /\ year' = extract_year(date_str)
    /\ yr_pc' = "returned"
    /\ UNCHANGED date_str
    /\ UNCHANGED <<adj_vars, cls_vars, srch_vars, eng_vars>>
    /\ ExtFrameExcept("yr")

YrNext == ExtractYear

SpecYear == YrInit /\ [][YrNext]_vars

\* The positions of character c in the date value of the call.
PositionsOf(c) == {i \in 1..Len(date_str) : date_str[i] = c}

\* The text before the first occurrence of c.
PartBefore(c) ==
    SubSeq(date_str, 1, (CHOOSE i \in PositionsOf(c) :
                            \A j \in PositionsOf(c) : i <= j) - 1)

\* The part of the date value the documented rule selects, if any.
SelectedPart ==
    IF PositionsOf("-") # {} THEN Some(PartBefore("-"))
    ELSE IF PositionsOf("/") # {} THEN Some(PartBefore("/"))
    ELSE IF Len(date_str) >= 4 THEN Some(SubSeq(date_str, 1, 4))
    ELSE None

\* C19: _extract_year returns, for every raw date value, the integer value
\* of the part before the first "-", else of the part before the first "/",
\* else of the first 4 characters of a value of length >= 4; it returns
\* 2020 otherwise, for a missing or empty value, and whenever the selected
\* part is not an integer literal.
C19_YearRule ==
    yr_pc = "returned" =>
        IF date_str = NaN \/ date_str = <<>> \/ SelectedPart = None
        THEN year = 2020
        ELSE IF int_of(SelectedPart[1]).ok
             THEN year = int_of(SelectedPart[1]).value
             ELSE year = 2020

\* The call on "2021-03-15" returned 2021.
C19_Witness ==
    /\ yr_pc = "returned"
    /\ date_str = <<"2", "0", "2", "1", "-", "0", "3", "-", "1", "5">>
    /\ year = 2021

-----------------------------------------------------------------------------
(* One call of load_patent_data.                                           *)

\* The characters of the sample keyword cells.
KeyChars == {"[", "]", ",", DQ, "a"}

\* Largest length of an enumerated keyword cell, and largest number of rows
\* of a sample file.
MaxCellLen == 3
MaxLoadRows == 3

\* The sample keyword cells: every text over KeyChars up to MaxCellLen, a
\* one-keyword and a two-keyword array, an array with a trailing comma, and
\* a missing cell.
KeyCells ==
    UNION {[1..n -> KeyChars] : n \in 1..MaxCellLen}
    \cup { <<"[", DQ, "a", DQ, "]">>,
           <<"[", DQ, "a", DQ, ",", DQ, "a", DQ, "]">>,
           <<"[", DQ, "a", DQ, ",", "]">>,
           NaN }

\* The keyword cells of the rows after the first.
FewKeyCells == {NaN, <<"[", DQ, "a", DQ, "]">>}

\* The claim cells: missing, or a text.
ClaimCells == {NaN, <<"c", "l", "a", "i", "m">>}

\* A sample file: row i has patent_id i, claim cell claims[i] and keyword
\* cell keys[i].
LoadFile(claims, keys) ==
    [i \in DOMAIN claims |->
        [patent_id |-> i, claim_text |-> claims[i], claim_key |-> keys[i]]]

LoadInit ==
    /\ AdjIdle
    /\ ClsIdle
    /\ SrchIdle
    /\ EngIdle
    /\ ExtIdleExcept("load")
    /\ \E n \in 1..MaxLoadRows :
          \E claims \in [1..n -> ClaimCells], later \in [2..n -> FewKeyCells] :
              \E first_key \in KeyCells :
                  csv_rows = LoadFile(claims,
                                      [i \in 1..n |-> IF i = 1 THEN first_key
                                                               ELSE later[i]])
    /\ loaded_data = None
    /\ load_pc = "call"

\* rag_system.py:55-77, the file being readable
LoadPatentDataCall ==
    /\ load_pc = "call"
    /\ loaded_data' = Some(load_patent_data(csv_rows))
    /\ load_pc' = "returned"
    /\ UNCHANGED csv_rows
    /\ UNCHANGED <<adj_vars, cls_vars, srch_vars, eng_vars>>
    /\ ExtFrameExcept("load")

LoadNext == LoadPatentDataCall

SpecLoad == LoadInit /\ [][LoadNext]_vars

\* The positions of the file whose row has a claim text.
WithClaim == {i \in 1..Len(csv_rows) : csv_rows[i].claim_text # NaN}

\* C20: the corpus load drops exactly the rows whose claim text is missing
\* and keeps all other rows in their source order; a kept row whose keyword
\* cell is missing or is not valid JSON has an empty keyword sequence.
C20_LoadKeepsRowsInOrder ==
    load_pc = "returned" =>
        /\ loaded_data # None
        /\ LET rows == loaded_data[1]
           IN  /\ Len(rows) = Cardinality(WithClaim)
               /\ \A i \in 1..Len(rows) :
                      LET src == csv_rows[NthOf(WithClaim, i)]
                      IN  /\ rows[i].patent_id = src.patent_id
                          /\ rows[i].claim_text = src.claim_text
                          /\ rows[i].claim_key = src.claim_key
                          /\ (src.claim_key = NaN \/ ~json_loads(src.claim_key).ok)
                                 => rows[i].parsed_keywords = PyList(<<>>)

\* A load dropped the middle row of three for its missing claim text and
\* kept the first, whose keyword cell is not valid JSON, with no keywords,
\* and the third, whose keyword cell is missing.
C20_Witness ==
    /\ load_pc = "returned"
    /\ Len(csv_rows) = 3
    /\ csv_rows[1].claim_key = <<"[", DQ, "a", DQ, ",", "]">>
    /\ csv_rows[3].claim_key = NaN
    /\ WithClaim = {1, 3}
    /\ Len(loaded_data[1]) = 2
    /\ loaded_data[1][1].parsed_keywords = PyList(<<>>)
    /\ loaded_data[1][2].patent_id = 3

-----------------------------------------------------------------------------
(* The summarize-patent operation of the three backends.                   *)

\* The sample bodies of request["patent_data"]: absent, the empty dict, a
\* patent without claim text, and patents with one.
SumPatents ==
    {None, Some([empty |-> TRUE, patent_id |-> 0, claim_text |-> FALSE])}
    \cup {Some([empty |-> FALSE, patent_id |-> i, claim_text |-> c]) :
              i \in 1..MaxSumPatents, c \in BOOLEAN}

\* The ways the completion call can end.  A message naming the API is
\* what the client library raises for a key or connection problem.
Completions == {"ok", "raises_api_error", "raises_other"}

\* request.get("patent_data", {}) is falsy
no_patent_data(p) == p = None \/ p[1].empty

\* data.get("patent_data", {}).get('patent_id')
patent_id_of(p) == IF no_patent_data(p) THEN 0 ELSE p[1].patent_id

\* os.getenv("OPENAI_API_KEY") is usable (simple_backend.py:110,
\* run_backend.py:197)
key_configured(key) == key = "set"

\* main.py:194-274
summarize_main(p, how, engine) ==
    IF no_patent_data(p)                                           \* line 199
    THEN [status |-> 400, summary |-> "none", patent_id |-> 0, rag_enhanced |-> FALSE]
    ELSE LET rag_context == engine = "ok" /\ p[1].claim_text       \* lines 207-216
         IN  IF how = "ok"                                         \* line 252
             THEN [status |-> 200, summary |-> "completion",
                   patent_id |-> patent_id_of(p), rag_enhanced |-> rag_context]
             ELSE IF how = "raises_api_error"                      \* lines 271-272
             THEN [status |-> 400, summary |-> "none", patent_id |-> 0,
                   rag_enhanced |-> FALSE]
             ELSE [status |-> 500, summary |-> "none", patent_id |-> 0,
                   rag_enhanced |-> FALSE]                         \* line 274

\* simple_backend.py:103-182
summarize_simple_backend(p, how, key) ==
    IF key_configured(key) /\ how = "ok"                           \* lines 110-111
    THEN [status |-> 200, summary |-> "completion",
          patent_id |-> patent_id_of(p), rag_enhanced |-> FALSE]
    \* no key (line 113) or the completion raised (lines 181-182)
    ELSE [status |-> 200, summary |-> "placeholder",
          patent_id |-> patent_id_of(p), rag_enhanced |-> FALSE]

\* run_backend.py:185-289
summarize_run_backend(p, how, key) ==
    IF no_patent_data(p)                                           \* line 190
    THEN [status |-> 400, summary |-> "none", patent_id |-> 0, rag_enhanced |-> FALSE]
    ELSE IF ~key_configured(key)                                   \* lines 197-231
    THEN [status |-> 200, summary |-> "placeholder",
          patent_id |-> patent_id_of(p), rag_enhanced |-> FALSE]
    ELSE IF how = "ok"                                             \* lines 266-281
    THEN [status |-> 200, summary |-> "completion",
          patent_id |-> patent_id_of(p), rag_enhanced |-> FALSE]
    \* the HTTPException(400) of line 286 is raised inside the outer try
    \* and replaced by the handler of lines 288-289
    ELSE [status |-> 500, summary |-> "none", patent_id |-> 0, rag_enhanced |-> FALSE]

SumInit ==
    /\ AdjIdle
    /\ ClsIdle
    /\ SrchIdle
    /\ EngIdle
    /\ ExtIdleExcept("sum")
    /\ backend \in {"main", "simple_backend", "run_backend"}
    /\ api_key \in {"unset", "placeholder", "set"}
    /\ completion \in Completions
    /\ api_key # "set" => completion = "raises_api_error"
    /\ rag \in {"None", "ok", "raises"}
    /\ backend # "main" => rag = "None"
    /\ patent_data_req \in SumPatents
    /\ sum_response = None

SumFrame ==
    /\ UNCHANGED <<backend, api_key, completion, rag, patent_data_req>>
    /\ UNCHANGED <<adj_vars, cls_vars, srch_vars, eng_vars>>
    /\ ExtFrameExcept("sum")

SummarizePatentMain ==
    /\ backend = "main"
    /\ sum_response = None
    /\ sum_response' = Some(summarize_main(patent_data_req, completion, rag))
    /\ SumFrame

SummarizePatentSimpleBackend ==
    /\ backend = "simple_backend"
    /\ sum_response = None
    /\ sum_response' =
           Some(summarize_simple_backend(patent_data_req, completion, api_key))
    /\ SumFrame

SummarizePatentRunBackend ==
    /\ backend = "run_backend"
    /\ sum_response = None
    /\ sum_response' =
           Some(summarize_run_backend(patent_data_req, completion, api_key))
    /\ SumFrame

SumNext ==
    \/ SummarizePatentMain
    \/ SummarizePatentSimpleBackend
    \/ SummarizePatentRunBackend

SpecSummarize == SumInit /\ [][SumNext]_vars

\* The completion call was made and raised.
CompletionFailed ==
    /\ completion # "ok"
    /\ backend = "main" \/ key_configured(api_key)
    /\ backend = "simple_backend" \/ ~no_patent_data(patent_data_req)

\* C15: when the completion call raises, the summarize-patent operation of
\* each backend still answers successfully, with a placeholder summary.
C15_FallbackOnFailure ==
    (sum_response # None /\ CompletionFailed) =>
        /\ sum_response[1].status = 200
        /\ sum_response[1].summary = "placeholder"

-----------------------------------------------------------------------------
(* The global engine: get_rag_system, initialize_rag_system and            *)
(* PatentRAGSystem.initialize, statement by statement, called by threads.  *)

\* A row of the sample corpus files.
SampleRow(id) ==
    [patent_id |-> id, cos |-> 50, product_group |-> "", steel_grade |-> "",
     claim_text |-> <<>>, claim_key |-> <<"[", "]">>]

\* What the corpus file can hold: nothing (the file is missing), a corpus,
\* or a later edition of it with a row added in front.
CsvContents ==
    { None,
      Some(<<SampleRow("A"), SampleRow("B")>>),
      Some(<<SampleRow("C"), SampleRow("A"), SampleRow("B")>>) }

\* Number of threads, and of engines that are created.
NumThreads == 2
MaxEngines == 2

Threads == 1..NumThreads

\* PatentRAGSystem.__init__ (lines 18-27)
NewEngine == [model |-> FALSE, patent_data |-> None, embeddings |-> None,
              index |-> None]

IdleThread == [pc |-> "idle", op |-> "none", eng |-> 0, ret |-> 0]

EngInit ==
    /\ AdjIdle
    /\ ClsIdle
    /\ SrchIdle
    /\ ExtIdle
    /\ csv_file \in CsvContents
    /\ embeddings_cache = None
    /\ rag_system = 0                                           \* line 680
    /\ engines = <<>>
    /\ thread = [t \in Threads |-> IdleThread]

EngFrame == UNCHANGED <<adj_vars, cls_vars, srch_vars, ext_vars>>

\* A thread not inside a call calls get_rag_system().
CallGetRagSystem(t) ==
    /\ thread[t].pc \in {"idle", "returned", "raised"}
    /\ thread' = [thread EXCEPT ![t] = [pc |-> "check", op |-> "get",
                                         eng |-> 0, ret |-> 0]]
    /\ UNCHANGED <<csv_file, embeddings_cache, rag_system, engines>>
    /\ EngFrame

\* A thread not inside a call calls initialize_rag_system().
CallInitializeRagSystem(t) ==
    /\ thread[t].pc \in {"idle", "returned", "raised"}
    /\ thread' = [thread EXCEPT ![t] = [pc |-> "create", op |-> "reload",
                                         eng |-> 0, ret |-> 0]]
    /\ UNCHANGED <<csv_file, embeddings_cache, rag_system, engines>>
    /\ EngFrame

\* "if rag_system is None" (line 685)
GetCheck(t) ==
    /\ thread[t].pc = "check"
    /\ thread' = [thread EXCEPT ![t].pc =
                      IF rag_system = 0 THEN "create" ELSE "return"]
    /\ UNCHANGED <<csv_file, embeddings_cache, rag_system, engines>>
    /\ EngFrame

\* "rag_system = PatentRAGSystem()" (lines 686, 693)
CreateEngine(t) ==
    /\ thread[t].pc = "create"
    /\ Len(engines) < MaxEngines
    /\ engines' = Append(engines, NewEngine)
    /\ rag_system' = Len(engines) + 1
    /\ thread' = [thread EXCEPT ![t].pc = "initialize"]
    /\ UNCHANGED <<csv_file, embeddings_cache>>
    /\ EngFrame

\* "rag_system.initialize()" (lines 687, 694) up to line 35: the method is
\* called on the engine the global holds now; the model is loaded.
LoadModel(t) ==
    /\ thread[t].pc = "initialize"
    /\ thread' = [thread EXCEPT ![t].pc = "load_patent_data",
                                ![t].eng = rag_system]
    /\ engines' = [engines EXCEPT ![rag_system].model = TRUE]
    /\ UNCHANGED <<csv_file, embeddings_cache, rag_system>>
    /\ EngFrame

\* load_patent_data (lines 39, 55-77): read_csv raises when the file is
\* missing, and the exception leaves initialize and the calling function.
LoadPatentData(t) ==
    /\ thread[t].pc = "load_patent_data"
    /\ IF csv_file = None
       THEN /\ thread' = [thread EXCEPT ![t].pc = "raised"]
            /\ UNCHANGED engines
       ELSE /\ thread' = [thread EXCEPT ![t].pc = "embeddings"]
            /\ engines' = [engines EXCEPT ![thread[t].eng].patent_data =
                                          Some(load_patent_data(csv_file[1]))]
    /\ UNCHANGED <<csv_file, embeddings_cache, rag_system>>
    /\ EngFrame

\* Variant of LoadOrGenerateEmbeddings: no cache is looked for, the
\* embeddings are always generated from the rows and saved.
AlwaysGenerateEmbeddings(t) ==
    /\ thread[t].pc = "embeddings"
    /\ LET e == thread[t].eng
           generated == generate_embeddings(engines[e].patent_data[1])
       IN  /\ engines' = [engines EXCEPT ![e].embeddings = Some(generated)]
           /\ embeddings_cache' = Some(generated)
    /\ thread' = [thread EXCEPT ![t].pc = "build_faiss_index"]
    /\ UNCHANGED <<csv_file, rag_system>>
    /\ EngFrame

\* lines 41-48: load the cached embeddings when the cache file exists
\* (_embeddings_exist, load_embeddings), else generate_embeddings and
\* save_embeddings.
LoadOrGenerateEmbeddings(t) ==
    /\ thread[t].pc = "embeddings"
    /\ LET e == thread[t].eng
           generated == generate_embeddings(engines[e].patent_data[1])
       IN  IF embeddings_cache # None
           THEN /\ engines' = [engines EXCEPT ![e].embeddings = embeddings_cache]
                /\ UNCHANGED embeddings_cache
           ELSE /\ engines' = [engines EXCEPT ![e].embeddings = Some(generated)]
                /\ embeddings_cache' = Some(generated)
    /\ thread' = [thread EXCEPT ![t].pc = "build_faiss_index"]
    /\ UNCHANGED <<csv_file, rag_system>>
    /\ EngFrame

\* build_faiss_index (lines 51, 128-142); initialize returns.
BuildFaissIndex(t) ==
    /\ thread[t].pc = "build_faiss_index"
    /\ LET e == thread[t].eng
       IN  engines' = [engines EXCEPT ![e].index =
                           Some(build_faiss_index(engines[e].embeddings[1]))]
    /\ thread' = [thread EXCEPT ![t].pc = "return"]
    /\ UNCHANGED <<csv_file, embeddings_cache, rag_system>>
    /\ EngFrame

\* "return rag_system" (lines 688, 695)
ReturnRagSystem(t) ==
    /\ thread[t].pc = "return"
    /\ thread' = [thread EXCEPT ![t].pc = "returned", ![t].ret = rag_system]
    /\ UNCHANGED <<csv_file, embeddings_cache, rag_system, engines>>
    /\ EngFrame

\* The corpus file is replaced by another edition while no engine is being
\* initialised.
ReplaceCorpus ==
    /\ \A t \in Threads : thread[t].pc \in {"idle", "returned", "raised"}
    /\ \E c \in CsvContents \ {csv_file, None} : csv_file' = c
    /\ UNCHANGED <<embeddings_cache, rag_system, engines, thread>>
    /\ EngFrame

EngNext ==
    \/ \E t \in Threads : CallGetRagSystem(t)
    \/ \E t \in Threads : CallInitializeRagSystem(t)
    \/ \E t \in Threads : GetCheck(t)
    \/ \E t \in Threads : CreateEngine(t)
    \/ \E t \in Threads : LoadModel(t)
    \/ \E t \in Threads : LoadPatentData(t)
    \/ \E t \in Threads : LoadOrGenerateEmbeddings(t)
    \/ \E t \in Threads : BuildFaissIndex(t)
    \/ \E t \in Threads : ReturnRagSystem(t)
    \/ ReplaceCorpus

SpecEngine == EngInit /\ [][EngNext]_vars

\* initialize() has completed on the engine.
Initialized(e) == engines[e].index # None

\* C3: after any sequence of engine initialisations the vectors and records
\* of an initialised engine are index-aligned: as many vectors as records,
\* and vector i is the embedding of record i.
C3_IndexAligned ==
    \A e \in 1..Len(engines) :
        Initialized(e) =>
            LET rows == engines[e].patent_data[1]
                vectors == engines[e].index[1]
            IN  /\ Len(vectors) = Len(rows)
                /\ \A i \in 1..Len(rows) : vectors[i].of = rows[i].patent_id

\* C4: get_rag_system never hands a caller an engine whose initialize() has
\* not completed successfully.  Stated for callers that arrive one after
\* another: the calls are all made by one thread, the others have made none.
C4_ReturnsInitializedEngine ==
    \A t \in Threads :
        ( /\ thread[t].pc = "returned"
          /\ thread[t].op = "get"
          /\ \A u \in Threads \ {t} : thread[u] = IdleThread )
            => Initialized(thread[t].ret)

\* C16: a reload builds the new engine off to the side and swaps it in
\* atomically: once an engine has been fully initialized, a reader that
\* obtains the active engine through get_rag_system gets a fully initialized
\* engine (the old one or the new one), at every point of a reload and after
\* a failed one.
C16_ReloadSwapsAtomically ==
    (\E e \in 1..Len(engines) : Initialized(e)) =>
        \A t \in Threads :
            (thread[t].pc = "returned" /\ thread[t].op = "get")
                => Initialized(thread[t].ret)


-----------------------------------------------------------------------------
(* get_rag_system and initialize_rag_system called one after another, each *)
(* call running to its end before the next begins.                         *)

\* Number of calls that are logged.
MaxSglCalls == 4

\* PatentRAGSystem.initialize (lines 29-53) on engine e, given the corpus
\* file and the embeddings cache: the engine and the cache afterwards, and
\* whether read_csv raised.
initialize(e, csv, cache) ==
    LET loaded == [e EXCEPT !.model = TRUE]
    IN  IF csv = None
        THEN [engine |-> loaded, cache |-> cache, raised |-> TRUE]
        ELSE LET rows == load_patent_data(csv[1])
                 emb == IF cache # None THEN cache[1] ELSE generate_embeddings(rows)
             IN  [engine |-> [loaded EXCEPT !.patent_data = Some(rows),
                                            !.embeddings = Some(emb),
                                            !.index = Some(build_faiss_index(emb))],
                  cache |-> Some(emb),
                  raised |-> FALSE]

\* "rag_system = PatentRAGSystem()" and "rag_system.initialize()" (lines
\* 686-687 and 693-694): the global is bound before initialize() runs.
create_and_initialize(engs, csv, cache) ==
    LET r == initialize(NewEngine, csv, cache)
    IN  [rag_system |-> Len(engs) + 1,
         engines |-> Append(engs, r.engine),
         cache |-> r.cache,
         raised |-> r.raised,
         ret |-> IF r.raised THEN 0 ELSE Len(engs) + 1,
         initialize_ran |-> TRUE]

\* Variant of get_rag_system: the global is not looked at, an engine is
\* created by every call.
get_rag_system_always_new(global, engs, csv, cache) ==
    create_and_initialize(engs, csv, cache)

\* rag_system.py:682-688
get_rag_system(global, engs, csv, cache) ==
    IF global = 0                                               \* line 685
    THEN create_and_initialize(engs, csv, cache)
    ELSE [rag_system |-> global, engines |-> engs, cache |-> cache,
          raised |-> FALSE, ret |-> global, initialize_ran |-> FALSE]

\* rag_system.py:690-695
initialize_rag_system(global, engs, csv, cache) ==
    create_and_initialize(engs, csv, cache)

SglInit ==
    /\ AdjIdle
    /\ ClsIdle
    /\ SrchIdle
    /\ ExtIdleExcept("sgl")
    /\ csv_file \in CsvContents
    /\ embeddings_cache = None
    /\ rag_system = 0                                           \* line 680
    /\ engines = <<>>
    /\ thread = [t \in Threads |-> IdleThread]
    /\ call_log = <<>>

\* The state after a call with outcome r, and its entry in the log.
SglCall(op, r) ==
    /\ rag_system' = r.rag_system
    /\ engines' = r.engines
    /\ embeddings_cache' = r.cache
    /\ call_log' = Append(call_log,
                          [op |-> op, ret |-> r.ret, raised |-> r.raised,
                           initialize_ran |-> r.initialize_ran,
                           changed |-> r.rag_system # rag_system \/ r.engines # engines])
    /\ UNCHANGED <<csv_file, thread>>
    /\ UNCHANGED <<adj_vars, cls_vars, srch_vars>>
    /\ ExtFrameExcept("sgl")

\* A call of get_rag_system(), as startup_event makes it (main.py:45).
GetRagSystem ==
    /\ Len(call_log) < MaxSglCalls
    /\ SglCall("get", get_rag_system(rag_system, engines, csv_file, embeddings_cache))

\* A call of initialize_rag_system().
InitializeRagSystem ==
    /\ Len(call_log) < MaxSglCalls
    /\ SglCall("reload", initialize_rag_system(rag_system, engines, csv_file,
                                               embeddings_cache))

SglNext ==
    \/ GetRagSystem
    \/ InitializeRagSystem
    \/ ReplaceCorpus

SpecSingleton == SglInit /\ [][SglNext]_vars

\* Calls i..j of the log are calls of get_rag_system: no reload in between.
GetRun(i, j) ==
    /\ i <= j
    /\ \A k \in i..j : call_log[k].op = "get"

\* C30: in any sequence of get_rag_system calls with no reload in between,
\* initialize() runs at most once, the calls that return return the same
\* engine instance, and the calls after the first leave the global and the
\* engines unchanged.
C30_LazySingleton ==
    \A i, j \in 1..Len(call_log) :
        GetRun(i, j) =>
            /\ Cardinality({k \in i..j : call_log[k].initialize_ran}) <= 1
            /\ (~call_log[i].raised /\ ~call_log[j].raised)
                   => call_log[i].ret = call_log[j].ret
            /\ i < j => ~call_log[j].changed

\* Three calls of get_rag_system in a row, the first of which created and
\* initialized the engine, and the corpus file was replaced since: the
\* third call returned the engine of the first, holding the rows it loaded.
C30_Witness ==
    /\ Len(call_log) >= 3
    /\ GetRun(1, 3)
    /\ call_log[1].initialize_ran
    /\ ~call_log[1].raised
    /\ call_log[3].ret = call_log[1].ret
    /\ Len(engines) = 1
    /\ csv_file # None
    /\ engines[1].patent_data # Some(load_patent_data(csv_file[1]))

=============================================================================
